---- MODULE Spec2Model ----
(***************************************************************************)
(* Availability aggregation and slot reservation of the booking backend    *)
(* (backend/src/services/AvailabilityService.ts, BookingService.ts,        *)
(* GoogleCalendarService.ts and the route handlers).                       *)
(*                                                                         *)
(* Instants are whole minutes counted from 00:00 UTC of a Sunday, so that  *)
(* instant t lies on UTC day t \div MinutesPerDay and that day's weekday   *)
(* is (t \div MinutesPerDay) % 7 with 0 = Sunday, as Date.getUTCDay.       *)
(* A rule's "HH:mm" text is held as the minute of the day it denotes       *)
(* (hour * 60 + minute, which is what Date.UTC makes of the parsed pair).  *)
(***************************************************************************)
EXTENDS Integers, Sequences, FiniteSets, TLC

VARIABLES
    bookingUsers,        \* booking_users rows: person -> [isActive, googleCalendarId, organizationId]
    availabilityRules,   \* availability_rules rows: person -> sequence of rules
    bookings,            \* bookings rows in insertion order
    bookingConfigs,      \* booking_configs: <<>> or <<the organization's row>>
    calendarEvents,      \* the provider's calendars: sequence of events
    googleCalendarCache, \* AvailabilityService.googleCalendarCache: key -> entry
    clock,               \* Date.now(), in minutes
    hostOffset,          \* host time zone: local time = UTC + hostOffset minutes
    throwing,            \* people whose in-memory slot computation raises
    req,                 \* in-flight requests: position and locals of each
    args,                \* arguments of the call under test
    returned,            \* what the call under test returned, or NotCalled
    previous             \* the last getAvailableSlots call since the last write or tick

vars == <<bookingUsers, availabilityRules, bookings, bookingConfigs, calendarEvents,
          googleCalendarCache, clock, hostOffset, throwing, req, args, returned,
          previous>>

dbVars == <<bookingUsers, availabilityRules, bookings, bookingConfigs>>

(***************************************************************************)
(* Program constants                                                       *)
(***************************************************************************)
MinutesPerDay == 1440
DEFAULT_BOOKING_DURATION_MINUTES == 30
FutureGraceMinutes == 1
CACHE_TTL_MINUTES == 1

(***************************************************************************)
(* Bounds of the model                                                     *)
(***************************************************************************)
Step == 15          \* spacing of the sampled instants, minutes
GridSteps == 3      \* sampled instants are T0, T0 + Step, .., T0 + GridSteps * Step
MaxBusy == 2        \* busy intervals handed to the slot filter
MaxCandidates == 1  \* candidate slots handed to the slot filter

\* returned is <<>> before the call under test and <<value>> after it
NotCalled == <<>>

Called == returned # NotCalled

Ret == returned[1]

\* previous is <<>> or <<the call and the list it returned>>
NoPrevious == <<>>

Persons == {"p1", "p2"}

\* the order in which bookingUsers.findMany returns the rows
PersonOrder == <<"p1", "p2">>

\* Monday 09:00 UTC of the model's first week
T0 == MinutesPerDay + 540

Grid == {T0 + k * Step : k \in 0..GridSteps}

Range(s) == {s[i] : i \in 1..Len(s)}

SeqsUpTo(S, n) == UNION {[1..k -> S] : k \in 0..n}

(***************************************************************************)
(* Slot Filter                                                             *)
(***************************************************************************)
timesOverlapLoose(start1, end1, start2, end2) ==
    start1 <= end2 /\ end1 >= start2

timesOverlap(start1, end1, start2, end2) ==
    start1 < end2 /\ end1 > start2

\* The predicate of potentialSlots.filter: TRUE when the slot is kept.
SlotIsFree(slot, busyTimes, bufferMinutes) ==
    LET slotStart == slot.startTime - bufferMinutes
        slotEnd == slot.endTime + bufferMinutes
    IN ~ \E i \in 1..Len(busyTimes) :
            timesOverlap(slotStart, slotEnd, busyTimes[i].start, busyTimes[i].end)

FilterSlots(potentialSlots, busyTimes, bufferMinutes) ==
    SelectSeq(potentialSlots, LAMBDA slot : SlotIsFree(slot, busyTimes, bufferMinutes))

(***************************************************************************)
(* Rule Engine: one rule on one day                                        *)
(***************************************************************************)
UTCDay(t) == t \div MinutesPerDay

UTCMidnight(t) == UTCDay(t) * MinutesPerDay

IsFutureAtLeast(slotStart, now) == slotStart >= now + FutureGraceMinutes

IsFuture(slotStart, now) == slotStart > now + FutureGraceMinutes

LoopGuardPast(slotStart, durationMinutes, dayEnd) ==
    slotStart < dayEnd

LoopGuard(slotStart, durationMinutes, dayEnd) ==
    slotStart + durationMinutes <= dayEnd

\* The iterations of the while loop: one record per pass, with whether the
\* pass pushed its slot.
RECURSIVE SlotLoop(_, _, _, _)
SlotLoop(slotStart, dayEnd, durationMinutes, now) ==
    IF LoopGuard(slotStart, durationMinutes, dayEnd)
    THEN <<[startTime |-> slotStart,
            endTime |-> slotStart + durationMinutes,
            pushed |-> IsFuture(slotStart, now)]>>
         \o SlotLoop(slotStart + durationMinutes, dayEnd, durationMinutes, now)
    ELSE <<>>

DayIterations(date, startTime, endTime, durationMinutes, now) ==
    SlotLoop(UTCMidnight(date) + startTime, UTCMidnight(date) + endTime,
             durationMinutes, now)

AsSlot(it) == [startTime |-> it.startTime, endTime |-> it.endTime]

MapSeq(s, F(_)) == [i \in 1..Len(s) |-> F(s[i])]

generateSlotsForDay(date, startTime, endTime, durationMinutes, now) ==
    MapSeq(SelectSeq(DayIterations(date, startTime, endTime, durationMinutes, now),
                     LAMBDA it : it.pushed),
           AsSlot)

(***************************************************************************)
(* Rule Engine: all rules over the requested range                         *)
(***************************************************************************)
\* Date.getDay(): the weekday of the host's local calendar date.
LocalDayOfWeek(t, offset) == ((t + offset) \div MinutesPerDay) % 7

UTCDayOfWeek(t) == UTCDay(t) % 7

RECURSIVE Flatten(_)
Flatten(ss) == IF ss = <<>> THEN <<>> ELSE Head(ss) \o Flatten(Tail(ss))

\* rulesByDay.get(dayOfWeek), in the order of the rules
DayRules(rules, dayOfWeek) == SelectSeq(rules, LAMBDA r : r.dayOfWeek = dayOfWeek)

SlotsOfDate(rules, currentDate, durationMinutes, now, offset) ==
    LET dayRules == DayRules(rules, LocalDayOfWeek(currentDate, offset))
    IN Flatten([i \in 1..Len(dayRules) |->
                  generateSlotsForDay(currentDate, dayRules[i].startTime,
                                      dayRules[i].endTime, durationMinutes, now)])

\* while (currentDate <= endDate) { ...; currentDate.setDate(getDate() + 1) }
RECURSIVE DateLoop(_, _, _, _, _, _)
DateLoop(rules, currentDate, endDate, durationMinutes, now, offset) ==
    IF currentDate <= endDate
    THEN SlotsOfDate(rules, currentDate, durationMinutes, now, offset)
         \o DateLoop(rules, currentDate + MinutesPerDay, endDate, durationMinutes,
                     now, offset)
    ELSE <<>>

generateSlotsFromRules(rules, startDate, endDate, durationMinutes, now, offset) ==
    DateLoop(rules, startDate, endDate, durationMinutes, now, offset)

(***************************************************************************)
(* Busy-Interval Aggregator: bookings and the provider's free/busy data    *)
(***************************************************************************)
BATCH_SIZE == 50

WindowBookingsAnyStatus(userIds, startDate, endDate) ==
    SelectSeq(bookings, LAMBDA b :
        /\ b.bookingUserId \in userIds
        /\ b.endTime > startDate
        /\ b.startTime < endDate)

\* bookings.findMany: confirmed rows of the listed people overlapping the window
WindowBookings(userIds, startDate, endDate) ==
    SelectSeq(bookings, LAMBDA b :
        /\ b.bookingUserId \in userIds
        /\ b.status = "confirmed"
        /\ b.endTime > startDate
        /\ b.startTime < endDate)

\* what the provider's freebusy.query reports for one calendar: its timed,
\* opaque, non-cancelled events that overlap [timeMin, timeMax]
ProviderBusy(calendar, timeMin, timeMax) ==
    MapSeq(SelectSeq(calendarEvents, LAMBDA e :
                /\ e.calendar = calendar
                /\ e.kind = "busy"
                /\ e.end > timeMin
                /\ e.start < timeMax),
           LAMBDA e : [start |-> e.start, end |-> e.end])

BatchCount(entries) == (Len(entries) + BATCH_SIZE - 1) \div BATCH_SIZE

Min(a, b) == IF a <= b THEN a ELSE b

BatchesOneLonger(entries) ==
    [k \in 1..BatchCount(entries) |->
        SubSeq(entries, (k - 1) * BATCH_SIZE + 1, Min(k * BATCH_SIZE + 1, Len(entries)))]

\* for (i = 0; i < entries.length; i += BATCH_SIZE) batches.push(entries.slice(i, i + BATCH_SIZE))
Batches(entries) ==
    [k \in 1..BatchCount(entries) |->
        SubSeq(entries, (k - 1) * BATCH_SIZE + 1, Min(k * BATCH_SIZE, Len(entries)))]

BatchFailsWithAny(k, failedBatches) == failedBatches # {}

\* the try block of batch k (numbered from 1) raises; failedBatches numbers
\* the chunks from 0
BatchFails(k, failedBatches) == (k - 1) \in failedBatches

\* what the loop body sets in result for one batch: the provider's answer, or
\* [] for every person of the batch in the catch block
BatchResult(batch, startTime, endTime, failed) ==
    [u \in Range(batch) |->
        IF failed THEN <<>> ELSE ProviderBusy(u, startTime, endTime)]

\* batchQueryFreeBusy: entries in chunks of BATCH_SIZE, one provider call per
\* chunk; a later result.set for the same person overwrites an earlier one.
batchQueryFreeBusy(entries, startTime, endTime, failedBatches) ==
    LET batches == Batches(entries)
        holding(u) == {k \in DOMAIN batches : u \in Range(batches[k])}
        last(u) == CHOOSE k \in holding(u) : \A j \in holding(u) : j <= k
    IN [u \in UNION {Range(batches[k]) : k \in DOMAIN batches} |->
          BatchResult(batches[last(u)], startTime, endTime,
                      BatchFails(last(u), failedBatches))[u]]

CacheKey(userId, startDate, endDate) == <<userId, startDate, endDate>>

ExpiresAtNow(now) == now

ExpiresAt(now) == now + CACHE_TTL_MINUTES

CacheFreshAtExpiry(cache, key, now) ==
    key \in DOMAIN cache /\ cache[key].expiresAt >= now

\* if (cached && cached.expiresAt > now)
CacheFresh(cache, key, now) ==
    key \in DOMAIN cache /\ cache[key].expiresAt > now

\* batchFetchGoogleCalendarBusyTimesOptimized: the map it returns and the
\* cache it leaves behind.
batchFetchOptimized(cache, users, startDate, endDate, now, failedBatches) ==
    LET key(u) == CacheKey(u, startDate, endDate)
        usersToFetch == SelectSeq(users, LAMBDA u : ~ CacheFresh(cache, key(u), now))
        hits == {u \in Range(users) : CacheFresh(cache, key(u), now)}
        fetchKeys == {key(u) : u \in Range(usersToFetch)}
        busyTimesByUser == batchQueryFreeBusy(usersToFetch, startDate, endDate,
                                              failedBatches)
        fromCache == [u \in hits |-> cache[key(u)].data]
    IN [result |-> [u \in Range(users) |->
                       IF u \in hits THEN fromCache[u] ELSE busyTimesByUser[u]],
        fetched |-> usersToFetch,
        cache |-> [k \in (DOMAIN cache) \cup fetchKeys |->
                     IF k \in fetchKeys
                     THEN [data |-> busyTimesByUser[k[1]], expiresAt |-> ExpiresAt(now)]
                     ELSE cache[k]]]

(***************************************************************************)
(* Availability Orchestrator: getAvailableSlots                            *)
(***************************************************************************)
\* durationMinutes || orgConfig?.bookingDurationMinutes || DEFAULT; 0 stands
\* for every falsy value (absent, 0, NaN)
ResolveDuration(durationMinutes, orgConfig) ==
    IF durationMinutes # 0 THEN durationMinutes
    ELSE IF orgConfig # <<>> /\ orgConfig[1].bookingDurationMinutes # 0
         THEN orgConfig[1].bookingDurationMinutes
         ELSE DEFAULT_BOOKING_DURATION_MINUTES

\* orgConfig?.bufferMinutes || 0
ResolveBuffer(orgConfig) ==
    IF orgConfig # <<>> THEN orgConfig[1].bufferMinutes ELSE 0

ActiveUsersAnyStatus(organizationId) ==
    SelectSeq(PersonOrder, LAMBDA p : bookingUsers[p].organizationId = organizationId)

\* bookingUsers.findMany: the active people of the organization
ActiveUsers(organizationId) ==
    SelectSeq(PersonOrder, LAMBDA p :
        /\ bookingUsers[p].organizationId = organizationId
        /\ bookingUsers[p].isActive)

ActiveRules(userId) == SelectSeq(availabilityRules[userId], LAMBDA r : r.isActive)

BusyOfBookings(userBookings) ==
    MapSeq(userBookings, LAMBDA b : [start |-> b.startTime, end |-> b.endTime])

WithUser(slots, userId) ==
    MapSeq(slots, LAMBDA slot :
        [startTime |-> slot.startTime, endTime |-> slot.endTime, userId |-> userId])

\* One person's potential slots minus the busy ones, before the try/catch.
ComputeUserSlots(userId, allBookings, googleEvents, startDate, endDate, duration, bufferMinutes, now, offset) ==
    LET userRules == ActiveRules(userId)
        potentialSlots == generateSlotsFromRules(userRules, startDate, endDate,
                                                 duration, now, offset)
        userBookings == SelectSeq(allBookings, LAMBDA b : b.bookingUserId = userId)
        busyTimes == BusyOfBookings(userBookings) \o googleEvents
    IN IF userRules = <<>> THEN <<>>
       ELSE IF potentialSlots = <<>> THEN <<>>
       ELSE WithUser(FilterSlots(potentialSlots, busyTimes, bufferMinutes), userId)

\* The callback of users.map: a raise inside the try block yields [].
UserSlots(userId, allBookings, googleEvents, startDate, endDate, duration, bufferMinutes, now, offset) ==
    IF userId \in throwing THEN <<>>
    ELSE ComputeUserSlots(userId, allBookings, googleEvents, startDate, endDate,
                          duration, bufferMinutes, now, offset)

\* Array.prototype.sort with (a, b) => a.startTime - b.startTime is stable:
\* an element goes behind every element that does not start after it.
RECURSIVE InsertBeforeEqual(_, _)
InsertBeforeEqual(sorted, x) ==
    IF sorted = <<>> THEN <<x>>
    ELSE IF Head(sorted).startTime < x.startTime
         THEN <<Head(sorted)>> \o InsertBeforeEqual(Tail(sorted), x)
         ELSE <<x>> \o sorted

RECURSIVE InsertByStart(_, _)
InsertByStart(sorted, x) ==
    IF sorted = <<>> THEN <<x>>
    ELSE IF Head(sorted).startTime <= x.startTime
         THEN <<Head(sorted)>> \o InsertByStart(Tail(sorted), x)
         ELSE <<x>> \o sorted

RECURSIVE SortFrom(_, _)
SortFrom(sorted, rest) ==
    IF rest = <<>> THEN sorted
    ELSE SortFrom(InsertByStart(sorted, Head(rest)), Tail(rest))

SortByStart(slots) == SortFrom(<<>>, slots)

\* users.map(...), Promise.all, flat and sort
MergedSlots(users, allBookings, googleEventsByUser, startDate, endDate, duration, bufferMinutes, now, offset) ==
    LET eventsOf(u) == IF u \in DOMAIN googleEventsByUser
                       THEN googleEventsByUser[u] ELSE <<>>
        allSlots == [i \in 1..Len(users) |->
                       UserSlots(users[i], allBookings, eventsOf(users[i]), startDate,
                                 endDate, duration, bufferMinutes, now, offset)]
    IN SortByStart(Flatten(allSlots))

\* as SlotsOfCall, but one person's raise rejects Promise.all and no list is made
SlotsOfCallAborting(organizationId, startDate, endDate, durationMinutes, googleEventsByUser, now, offset) ==
    LET users == ActiveUsers(organizationId)
    IN IF users = <<>> \/ Range(users) \cap throwing # {} THEN <<>>
       ELSE MergedSlots(users, WindowBookings(Range(users), startDate, endDate),
                        googleEventsByUser, startDate, endDate,
                        ResolveDuration(durationMinutes, bookingConfigs),
                        ResolveBuffer(bookingConfigs), now, offset)

\* What getAvailableSlots returns, given the map the batch fetch returned.
SlotsOfCall(organizationId, startDate, endDate, durationMinutes, googleEventsByUser, now, offset) ==
    LET users == ActiveUsers(organizationId)
    IN IF users = <<>> THEN <<>>
       ELSE MergedSlots(users, WindowBookings(Range(users), startDate, endDate),
                        googleEventsByUser, startDate, endDate,
                        ResolveDuration(durationMinutes, bookingConfigs),
                        ResolveBuffer(bookingConfigs), now, offset)

UsersWithCalendar(users) ==
    SelectSeq(users, LAMBDA u : bookingUsers[u].googleCalendarId)

\* getAvailableSlots, whole: the batch fetch with its cache update, then the
\* per-person computation, flatten and sort. failedBatches are the free/busy
\* chunks whose provider call raises during this call.
GetAvailableSlots(organizationId, startDate, endDate, durationMinutes, failedBatches) ==
    LET users == ActiveUsers(organizationId)
        fetch == batchFetchOptimized(googleCalendarCache, UsersWithCalendar(users),
                                     startDate, endDate, clock, failedBatches)
        slots == SlotsOfCall(organizationId, startDate, endDate, durationMinutes,
                             fetch.result, clock, hostOffset)
        call == [organizationId |-> organizationId, startDate |-> startDate,
                 endDate |-> endDate, durationMinutes |-> durationMinutes]
    IN /\ failedBatches \subseteq 0..(BatchCount(fetch.fetched) - 1)
       /\ googleCalendarCache' = fetch.cache
       /\ args' = call
       /\ returned' = <<[slots |-> slots,
                         fetched |-> Range(fetch.fetched),
                         expired |-> {u \in Range(UsersWithCalendar(users)) :
                                        LET key == CacheKey(u, startDate, endDate)
                                        IN /\ key \in DOMAIN googleCalendarCache
                                           /\ googleCalendarCache[key].expiresAt <= clock},
                         failed |-> failedBatches,
                         repeats |-> previous # NoPrevious /\ previous[1].call = call,
                         before |-> IF previous # NoPrevious /\ previous[1].call = call
                                    THEN previous[1].slots ELSE <<>>]>>
       /\ previous' = <<[call |-> call, slots |-> slots]>>
       /\ UNCHANGED <<dbVars, calendarEvents, clock, hostOffset, throwing, req>>

(***************************************************************************)
(* State shared by the specifications: what a variable holds when the      *)
(* specification at hand does not exercise it                              *)
(***************************************************************************)
NoUsers == [p \in Persons |->
              [isActive |-> TRUE, googleCalendarId |-> FALSE, organizationId |-> "orgA"]]

NoRules == [p \in Persons |-> <<>>]

QuietDb ==
    /\ bookingUsers = NoUsers
    /\ availabilityRules = NoRules
    /\ bookings = <<>>
    /\ bookingConfigs = <<>>

QuietWorld ==
    /\ calendarEvents = <<>>
    /\ googleCalendarCache = <<>>
    /\ clock = 0
    /\ hostOffset = 0
    /\ throwing = {}
    /\ req = <<>>
    /\ previous = NoPrevious

worldVars == <<calendarEvents, googleCalendarCache, clock, hostOffset, throwing, req,
               previous>>

worldVarsButReq == <<calendarEvents, googleCalendarCache, clock, hostOffset, throwing, previous>>

(***************************************************************************)
(* SpecFilter: the slot filter applied to sampled candidates and busy sets *)
(***************************************************************************)
CandidateSlots ==
    {[startTime |-> s, endTime |-> s + d] : s \in Grid, d \in {Step, 2 * Step}}

BusyIntervals ==
    {[start |-> s, end |-> s + d] : s \in Grid, d \in {0, Step, 2 * Step}}

Buffers == {0, Step}

InitFilter ==
    /\ args \in [potentialSlots : SeqsUpTo(CandidateSlots, MaxCandidates),
                 busyTimes : SeqsUpTo(BusyIntervals, MaxBusy),
                 bufferMinutes : Buffers]
    /\ returned = NotCalled
    /\ QuietDb
    /\ QuietWorld

ApplyFilter ==
    /\ returned = NotCalled
    /\ returned' = <<FilterSlots(args.potentialSlots, args.busyTimes, args.bufferMinutes)>>
    /\ UNCHANGED <<args, dbVars, worldVars>>

NextFilter == ApplyFilter

SpecFilter == InitFilter /\ [][NextFilter]_vars

\* C4: the filter drops a candidate exactly when, padded by the buffer on
\* both ends, it overlaps at least one busy interval
\* (candidate.start - buffer < busy.end and candidate.end + buffer > busy.start);
\* every other candidate is kept as it was, in the same order.
C4_ExcludedByPaddedOverlap(c) ==
    \E b \in Range(args.busyTimes) :
        /\ c.startTime - args.bufferMinutes < b.end
        /\ c.endTime + args.bufferMinutes > b.start

C4_FilterExcludesIffPaddedOverlap ==
    Called =>
        Ret = SelectSeq(args.potentialSlots,
                             LAMBDA c : ~ C4_ExcludedByPaddedOverlap(c))

\* A candidate that only touches a busy interval through its padding is
\* dropped while the filter has run.
C4_Witness ==
    /\ Called /\ Ret = <<>>
    /\ Len(args.potentialSlots) = 1
    /\ args.bufferMinutes > 0
    /\ \E b \in Range(args.busyTimes) : b.start = args.potentialSlots[1].endTime
    /\ \A b \in Range(args.busyTimes) :
          ~ (args.potentialSlots[1].startTime < b.end
             /\ args.potentialSlots[1].endTime > b.start)

(***************************************************************************)
(* SpecDay: generateSlotsForDay applied to sampled rules, durations, clocks *)
(***************************************************************************)
RuleTimes == {540 + k * Step : k \in 0..GridSteps}

Durations == {Step, Step + 5, 2 * Step}

NowSamples == {T0 - 2, T0 - 1, T0, T0 + Step - 1, T0 + Step}

DateSamples == {MinutesPerDay, T0}

InitDay ==
    /\ args \in [date : DateSamples, startTime : RuleTimes, endTime : RuleTimes,
                 durationMinutes : Durations, now : NowSamples]
    /\ returned = NotCalled
    /\ QuietDb
    /\ QuietWorld

ApplyGenerateSlotsForDay ==
    /\ returned = NotCalled
    /\ returned' =
         <<[iterations |-> DayIterations(args.date, args.startTime, args.endTime,
                                         args.durationMinutes, args.now),
            slots |-> generateSlotsForDay(args.date, args.startTime, args.endTime,
                                          args.durationMinutes, args.now)]>>
    /\ UNCHANGED <<args, dbVars, worldVars>>

NextDay == ApplyGenerateSlotsForDay

SpecDay == InitDay /\ [][NextDay]_vars

\* C5: for a rule with start < end and a duration d > 0, the loop's slots
\* before the future filter are exactly [ruleStart + n*d, ruleStart + (n+1)*d)
\* for n = 0 .. floor((ruleEnd - ruleStart) / d) - 1, so none ends after the
\* rule's end, consecutive ones abut and no two overlap.
C5_SlotsTileTheRule ==
    (Called /\ args.startTime < args.endTime) =>
        LET ruleStart == UTCMidnight(args.date) + args.startTime
            ruleEnd == UTCMidnight(args.date) + args.endTime
            d == args.durationMinutes
            count == (ruleEnd - ruleStart) \div d
            its == Ret.iterations
        IN /\ Len(its) = count
           /\ \A n \in 1..count :
                 /\ its[n].startTime = ruleStart + (n - 1) * d
                 /\ its[n].endTime = ruleStart + n * d
                 /\ its[n].endTime <= ruleEnd
           /\ \A n \in 1..(count - 1) : its[n].endTime = its[n + 1].startTime
           /\ \A m, n \in 1..count :
                 m # n => ~ (its[m].startTime < its[n].endTime
                             /\ its[m].endTime > its[n].startTime)

\* A duration that does not divide the rule's length, with two slots made.
C5_Witness ==
    /\ Called
    /\ args.startTime < args.endTime
    /\ (args.endTime - args.startTime) % args.durationMinutes # 0
    /\ Len(Ret.iterations) = 2

\* C6 as claimed: a slot is dropped exactly when its start is before
\* now + 1 minute, so a slot starting exactly one minute from now is kept.
C6_KeptIffAtLeastOneMinuteAhead ==
    Called =>
        Ret.slots =
            MapSeq(SelectSeq(Ret.iterations,
                             LAMBDA it : it.startTime >= args.now + 1),
                   AsSlot)

\* C6 as the code has it: a slot is kept exactly when its start is more
\* than one minute after now; a slot starting exactly one minute from now
\* is dropped, and no returned slot starts at or before now + 1 minute.
C6_KeptIffMoreThanOneMinuteAhead ==
    Called =>
        /\ Ret.slots =
              MapSeq(SelectSeq(Ret.iterations,
                               LAMBDA it : it.startTime > args.now + 1),
                     AsSlot)
        /\ \A i \in 1..Len(Ret.slots) :
              Ret.slots[i].startTime > args.now + 1

\* The first slot starts exactly one minute from now and is dropped, the
\* next one is kept.
C6_Witness ==
    /\ Called
    /\ Len(Ret.iterations) = 2
    /\ Ret.iterations[1].startTime = args.now + 1
    /\ Ret.slots = <<AsSlot(Ret.iterations[2])>>

(***************************************************************************)
(* SpecAvail: one getAvailableSlots call on sampled people, rules,         *)
(* bookings, configuration, provider data and clocks                       *)
(***************************************************************************)
MaxBookings == 1

Rule(dayOfWeek, startTime, endTime, isActive) ==
    [dayOfWeek |-> dayOfWeek, startTime |-> startTime, endTime |-> endTime,
     isActive |-> isActive]

\* Monday 09:00-10:00, Monday 09:30-10:30 (overlapping it), Tuesday 09:00-10:00
RuleA == Rule(1, 540, 540 + 4 * Step, TRUE)
RuleB == Rule(1, 540 + 2 * Step, 540 + 6 * Step, TRUE)
RuleC == Rule(2, 540, 540 + 4 * Step, TRUE)
RuleOff == Rule(1, 540, 540 + 4 * Step, FALSE)

BookingIntervals ==
    {<<T0 - 2 * Step, T0>>, <<T0 + Step, T0 + 3 * Step>>, <<T0 + 4 * Step, T0 + 6 * Step>>}

BookingRow(bookingUserId, startTime, endTime, status, googleEventId) ==
    [bookingUserId |-> bookingUserId, startTime |-> startTime, endTime |-> endTime,
     status |-> status, googleEventId |-> googleEventId]

BookingRows ==
    {BookingRow(p, iv[1], iv[2], "confirmed", 0) :
        p \in Persons, iv \in BookingIntervals}
    \cup {BookingRow("p1", T0 + Step, T0 + 3 * Step, "cancelled", 0)}

\* the rule lists sampled for p1 and for p2
RuleListsP1 ==
    {<<>>, <<RuleA>>, <<RuleB>>, <<RuleA, RuleB>>, <<RuleB, RuleA>>, <<RuleA, RuleA>>}

RuleListsP2 == {<<>>, <<RuleA>>, <<RuleC>>, <<RuleOff>>}

UserRow(isActive, googleCalendarId, organizationId) ==
    [isActive |-> isActive, googleCalendarId |-> googleCalendarId,
     organizationId |-> organizationId]

ConfigRow(bookingDurationMinutes, bufferMinutes) ==
    [bookingDurationMinutes |-> bookingDurationMinutes, bufferMinutes |-> bufferMinutes]

\* an event the owner of the calendar put there; events made for bookings get
\* the ids 1, 2, ...; a row's googleEventId of 0 stands for undefined
ExternalEvent == [id |-> -1, calendar |-> "p1", start |-> T0 + 2 * Step,
                  end |-> T0 + 4 * Step, kind |-> "busy"]

StartDates == {MinutesPerDay, T0}

\* Tuesday 00:00
EndDate == 2 * MinutesPerDay

InitAvail ==
    /\ bookingUsers \in
         {[p \in Persons |-> IF p = "p1" THEN r1 ELSE r2] :
             r1 \in {UserRow(TRUE, TRUE, "orgA")},
             r2 \in {UserRow(TRUE, FALSE, "orgA"), UserRow(FALSE, FALSE, "orgA"),
                     UserRow(TRUE, FALSE, "orgB")}}
    /\ availabilityRules \in
         {[p \in Persons |-> IF p = "p1" THEN s1 ELSE s2] :
             s1 \in RuleListsP1, s2 \in RuleListsP2}
    /\ bookings \in SeqsUpTo(BookingRows, MaxBookings)
    /\ bookingConfigs \in {<<>>, <<ConfigRow(2 * Step, Step)>>, <<ConfigRow(3 * Step, 0)>>}
    /\ calendarEvents \in {<<>>, <<ExternalEvent>>}
    /\ googleCalendarCache = <<>>
    /\ clock \in {0, T0 + Step}
    /\ hostOffset = 0
    /\ throwing \in {{}, {"p1"}, {"p2"}}
    /\ (clock = 0 \/ throwing = {})
    /\ req = <<>>
    /\ args = <<>>
    /\ returned = NotCalled
    /\ previous = NoPrevious

CallGetAvailableSlots ==
    /\ returned = NotCalled
    /\ \E startDate \in StartDates, durationMinutes \in {0, Step + 5},
          failedBatches \in SUBSET {0} :
          GetAvailableSlots("orgA", startDate, EndDate, durationMinutes, failedBatches)

NextAvail == CallGetAvailableSlots

SpecAvail == InitAvail /\ [][NextAvail]_vars

\* The list a person contributes to the call that returned: recomputed from the
\* stored rows and from the busy data the call used, which its batch fetch
\* left in the cache under the call's key.
EventsUsed(u) ==
    LET key == CacheKey(u, args.startDate, args.endDate)
    IN IF key \in DOMAIN googleCalendarCache THEN googleCalendarCache[key].data ELSE <<>>

CallBookings ==
    WindowBookings(Range(ActiveUsers(args.organizationId)), args.startDate, args.endDate)

CallDuration == ResolveDuration(args.durationMinutes, bookingConfigs)

OwnSlots(u) ==
    ComputeUserSlots(u, CallBookings, EventsUsed(u), args.startDate, args.endDate,
                     CallDuration, ResolveBuffer(bookingConfigs), clock, hostOffset)

SlotsOf(slots, u) == SelectSeq(slots, LAMBDA x : x.userId = u)

CountIn(slots, x) == Cardinality({i \in 1..Len(slots) : slots[i] = x})

SameBag(s, t) ==
    /\ Len(s) = Len(t)
    /\ \A x \in Range(s) \cup Range(t) : CountIn(s, x) = CountIn(t, x)

PositionOf(u) == CHOOSE i \in 1..Len(PersonOrder) : PersonOrder[i] = u

\* C7: the returned list holds, for every active person of the organization,
\* exactly that person's individually filtered slots and nothing else; it is
\* ascending by start time, and slots with equal starts stand in the order of
\* the loaded people.
C7_SortedStableUnion ==
    Called =>
        LET out == Ret.slots
            users == ActiveUsers(args.organizationId)
        IN /\ \A i \in 1..Len(out) : out[i].userId \in Range(users)
           /\ \A u \in Range(users) :
                 SameBag(SlotsOf(out, u), IF u \in throwing THEN <<>> ELSE OwnSlots(u))
           /\ \A i, j \in 1..Len(out) :
                 i < j =>
                    /\ out[i].startTime <= out[j].startTime
                    /\ (out[i].startTime = out[j].startTime
                          => PositionOf(out[i].userId) <= PositionOf(out[j].userId))

\* Two people own slots with the same start, and a slot of the first person
\* starts after one of the second.
C7_Witness ==
    /\ Called
    /\ \E i, j \in 1..Len(Ret.slots) :
          /\ i < j
          /\ Ret.slots[i].startTime = Ret.slots[j].startTime
          /\ Ret.slots[i].userId = "p1"
          /\ Ret.slots[j].userId = "p2"
    /\ \E i, j \in 1..Len(Ret.slots) :
          /\ i < j
          /\ Ret.slots[i].startTime < Ret.slots[j].startTime
          /\ Ret.slots[i].userId = "p2"
          /\ Ret.slots[j].userId = "p1"

\* The candidate slots the call generates for a person.
CallCandidates(u) ==
    generateSlotsFromRules(ActiveRules(u), args.startDate, args.endDate, CallDuration,
                           clock, hostOffset)

ConfirmedOf(u) ==
    {i \in 1..Len(bookings) :
        bookings[i].bookingUserId = u /\ bookings[i].status = "confirmed"}

\* C8: a confirmed booking of a person that ends exactly at the start of one of
\* that person's candidate slots excludes the slot when the buffer is positive
\* and does not exclude it when the buffer is 0 (the slot is returned unless
\* something else is in its way), for every candidate of the call, one starting
\* at the requested startDate included.
C8_AbuttingBookingExcludesIffBuffer ==
    Called =>
        \A u \in Range(ActiveUsers(args.organizationId)) \ throwing :
            \A c \in Range(CallCandidates(u)) :
                \A i \in ConfirmedOf(u) :
                    bookings[i].endTime = c.startTime =>
                        LET mine == [startTime |-> c.startTime, endTime |-> c.endTime,
                                     userId |-> u]
                            others == {j \in ConfirmedOf(u) : j # i}
                            blockedOtherwise ==
                                \/ \E j \in others :
                                      timesOverlap(c.startTime, c.endTime,
                                                   bookings[j].startTime,
                                                   bookings[j].endTime)
                                \/ \E k \in 1..Len(EventsUsed(u)) :
                                      timesOverlap(c.startTime, c.endTime,
                                                   EventsUsed(u)[k].start,
                                                   EventsUsed(u)[k].end)
                        IN IF ResolveBuffer(bookingConfigs) > 0
                           THEN mine \notin Range(Ret.slots)
                           ELSE blockedOtherwise \/ mine \in Range(Ret.slots)

\* C10: a person whose slot computation raises contributes no slot, every other
\* active person's slots are what that person's computation yields on its own,
\* in ascending order, and the call returns its list.
C10_FailureIsolatedToPerson ==
    Called =>
        /\ \A i \in 1..Len(Ret.slots) : Ret.slots[i].userId \notin throwing
        /\ \A u \in Range(ActiveUsers(args.organizationId)) \ throwing :
              SlotsOf(Ret.slots, u) = SortByStart(OwnSlots(u))

\* p1's computation raises although it has rules in range, and p2's slots
\* are returned.
C10_Witness ==
    /\ Called
    /\ throwing = {"p1"}
    /\ CallCandidates("p1") # <<>>
    /\ Ret.slots # <<>>
    /\ \A i \in 1..Len(Ret.slots) : Ret.slots[i].userId = "p2"

(***************************************************************************)
(* SpecCache: repeated getAvailableSlots calls while the provider's data,  *)
(* the clock, the configuration and the busy-time cache change             *)
(***************************************************************************)
MaxTicks == 2

ConfigRows == {ConfigRow(2 * Step, Step), ConfigRow(2 * Step, 0)}

InitCache ==
    /\ bookingUsers \in
         {[p \in Persons |-> UserRow(TRUE, p = "p1" /\ bound, "orgA")] : bound \in BOOLEAN}
    /\ availabilityRules \in
         {[p \in Persons |-> IF p = "p1" THEN <<RuleA>> ELSE s2] : s2 \in {<<>>, <<RuleB>>}}
    /\ bookings \in {<<>>, <<BookingRow("p1", T0 - 2 * Step, T0, "confirmed", 0)>>}
    /\ bookingConfigs \in {<<>>} \cup {<<row>> : row \in ConfigRows}
    /\ calendarEvents = <<>>
    /\ googleCalendarCache = <<>>
    /\ clock = 0
    /\ hostOffset = 0
    /\ throwing = {}
    /\ req = <<>>
    /\ args = <<>>
    /\ returned = NotCalled
    /\ previous = NoPrevious

RepeatedGetAvailableSlots ==
    \E startDate \in StartDates, failedBatches \in SUBSET {0} :
        GetAvailableSlots("orgA", startDate, EndDate, 0, failedBatches)

\* The owner of the calendar adds or removes an event at the provider.
ProviderChange ==
    /\ calendarEvents' = IF calendarEvents = <<>> THEN <<ExternalEvent>> ELSE <<>>
    /\ UNCHANGED <<dbVars, googleCalendarCache, clock, hostOffset, throwing, req, args,
                   returned, previous>>

\* A minute passes.
Tick ==
    /\ clock < MaxTicks
    /\ clock' = clock + 1
    /\ previous' = NoPrevious
    /\ UNCHANGED <<dbVars, calendarEvents, googleCalendarCache, hostOffset, throwing,
                   req, args, returned>>

\* The constructor's setInterval callback: drop the expired entries.
Sweep ==
    /\ googleCalendarCache' =
          [k \in {k \in DOMAIN googleCalendarCache :
                     ~ (googleCalendarCache[k].expiresAt <= clock)} |->
              googleCalendarCache[k]]
    /\ UNCHANGED <<dbVars, calendarEvents, clock, hostOffset, throwing, req, args,
                   returned, previous>>

\* PUT /api/admin/config: the organization's row is updated, or inserted when
\* there is none.
HandleUpdateConfig ==
    /\ \E row \in ConfigRows : bookingConfigs' = <<row>>
    /\ previous' = NoPrevious
    /\ UNCHANGED <<bookingUsers, availabilityRules, bookings, calendarEvents,
                   googleCalendarCache, clock, hostOffset, throwing, req, args, returned>>

NextCache ==
    \/ RepeatedGetAvailableSlots
    \/ ProviderChange
    \/ Tick
    \/ Sweep
    \/ HandleUpdateConfig

SpecCache == InitCache /\ [][NextCache]_vars

\* C9: a getAvailableSlots call that repeats the arguments of the call before
\* it, with no write to people, rules, bookings or configuration and no change
\* of the clock in between, returns the list the call before it returned,
\* whether it is served from the busy-time cache or needs no busy data at all.
C9_RepeatedCallReturnsSameList ==
    (Called /\ Ret.repeats) => Ret.slots = Ret.before

\* The repeated call is served from the cache although the provider's data
\* changed after the first call, which had fetched it.
C9_Witness ==
    /\ Called
    /\ Ret.repeats
    /\ Ret.fetched = {}
    /\ bookingUsers["p1"].googleCalendarId
    /\ Ret.slots # <<>>
    /\ ProviderBusy("p1", args.startDate, args.endDate) # EventsUsed("p1")

\* what a getAvailableSlots step does with the entry of one person's key
C21_LookupStep ==
    \A startDate \in StartDates, failedBatches \in SUBSET {0} :
        GetAvailableSlots("orgA", startDate, EndDate, 0, failedBatches) =>
            \A u \in Range(UsersWithCalendar(ActiveUsers("orgA"))) :
                LET key == CacheKey(u, startDate, EndDate)
                    had == key \in DOMAIN googleCalendarCache
                    refetched == IF failedBatches = {} THEN ProviderBusy(u, startDate, EndDate)
                                 ELSE <<>>
                    used == googleCalendarCache'[key].data
                IN /\ key \in DOMAIN googleCalendarCache'
                   /\ (had /\ googleCalendarCache[key].expiresAt <= clock) =>
                         /\ u \in returned'[1].fetched
                         /\ googleCalendarCache'[key].expiresAt > clock
                         /\ used = refetched
                   /\ (had /\ googleCalendarCache[key].expiresAt > clock) =>
                         /\ u \notin returned'[1].fetched
                         /\ googleCalendarCache'[key] = googleCalendarCache[key]
                   /\ SlotsOf(returned'[1].slots, u) =
                         SortByStart(ComputeUserSlots(u,
                             WindowBookings(Range(ActiveUsers("orgA")), startDate, EndDate),
                             used, startDate, EndDate,
                             ResolveDuration(0, bookingConfigs), ResolveBuffer(bookingConfigs),
                             clock, hostOffset))

\* C21: a lookup at time t never serves an entry with expiresAt <= t: the
\* entry is replaced and the person's busy intervals come from the provider;
\* an entry with expiresAt > t is served as it is, with no provider call for
\* that person.
C21_ExpiredEntryIsRefetched == [][C21_LookupStep]_vars

\* The call met an entry that expired at this very minute and fetched the
\* person's busy intervals again.
C21_Witness ==
    /\ Called
    /\ "p1" \in Ret.expired
    /\ "p1" \in Ret.fetched
    /\ clock > 0
    /\ googleCalendarCache[CacheKey("p1", args.startDate, args.endDate)].expiresAt
          = clock + CACHE_TTL_MINUTES

(***************************************************************************)
(* Reservation Guard: createBooking and cancelBooking, one step per await  *)
(***************************************************************************)
MaxRequests == 2
MaxRows == 2

Requests == 1..MaxRequests

\* [09:00, 09:30), [09:15, 09:45), [09:30, 10:00) on Monday
RequestIntervals ==
    {<<T0, T0 + 2 * Step>>, <<T0 + Step, T0 + 3 * Step>>, <<T0 + 2 * Step, T0 + 4 * Step>>}

\* writes counts the inserts, updates and provider calls the request has made
IdleRequest ==
    [op |-> "none", pc |-> "idle", userId |-> "none", startTime |-> 0, endTime |-> 0,
     bookingId |-> 0, isAvailable |-> <<>>, user |-> <<>>, googleEventId |-> 0,
     calendarEvent |-> "none", error |-> "none", writes |-> 0]

InFlight(r) == req[r].pc \notin {"idle", "done"}

ConflictingBookingSameStart(userId, startTime, endTime) ==
    {i \in DOMAIN bookings :
        /\ bookings[i].bookingUserId = userId
        /\ bookings[i].status = "confirmed"
        /\ bookings[i].startTime = startTime}

\* isSlotAvailable's bookings.findFirst: the person's confirmed rows with
\* startTime < endTime and endTime > startTime
ConflictingBooking(userId, startTime, endTime) ==
    {i \in DOMAIN bookings :
        /\ bookings[i].bookingUserId = userId
        /\ bookings[i].status = "confirmed"
        /\ bookings[i].startTime < endTime
        /\ bookings[i].endTime > startTime}

\* getCalendarEvents: events.list of the calendar between timeMin and timeMax
getCalendarEvents(calendar, timeMin, timeMax) ==
    SelectSeq(calendarEvents, LAMBDA e :
        e.calendar = calendar /\ e.end > timeMin /\ e.start < timeMax)

CountsAsBusyWhatever(event) == TRUE

\* the filter of fetchGoogleCalendarBusyTimes: timed, not cancelled, not
\* transparent
CountsAsBusy(event) == event.kind \notin {"allDay", "cancelled", "transparent"}

\* fetchGoogleCalendarBusyTimes: [] without a calendar and [] when the
\* provider call raises
fetchGoogleCalendarBusyTimes(userId, startDate, endDate, fails) ==
    IF userId \notin DOMAIN bookingUsers \/ ~ bookingUsers[userId].googleCalendarId \/ fails
    THEN <<>>
    ELSE MapSeq(SelectSeq(getCalendarEvents(userId, startDate, endDate), CountsAsBusy),
                LAMBDA e : [start |-> e.start, end |-> e.end])

CalendarConflict(googleBusyTimes, startTime, endTime) ==
    \E i \in DOMAIN googleBusyTimes :
        timesOverlap(startTime, endTime, googleBusyTimes[i].start, googleBusyTimes[i].end)

AfterValidationIgnoring(isAvailable) == "findUser"

\* if (!isAvailable) throw new Error('Time slot is not available')
AfterValidation(isAvailable) == IF isAvailable THEN "findUser" ELSE "done"

ValidationError(isAvailable) ==
    IF isAvailable THEN "none" ELSE "Time slot is not available"

FreshEventId ==
    LET used == {0} \cup {calendarEvents[i].id : i \in DOMAIN calendarEvents}
                    \cup {bookings[i].googleEventId : i \in DOMAIN bookings}
                    \cup {req[r].googleEventId : r \in Requests}
    IN 1 + CHOOSE m \in used : \A n \in used : n <= m

reservationUnchanged ==
    UNCHANGED <<bookingUsers, availabilityRules, bookingConfigs, googleCalendarCache,
                clock, hostOffset, throwing, args, returned, previous>>

\* createBooking is called and isSlotAvailable runs its bookings query
StartCreateBooking(r) ==
    /\ ~ InFlight(r)
    /\ Len(bookings)
         + Cardinality({q \in Requests : InFlight(q) /\ req[q].op = "createBooking"})
       < MaxRows
    /\ \E userId \in Persons, iv \in RequestIntervals :
         LET conflict == ConflictingBooking(userId, iv[1], iv[2]) # {}
         IN req' = [req EXCEPT ![r] =
                      [IdleRequest EXCEPT
                         !.op = "createBooking",
                         !.userId = userId,
                         !.startTime = iv[1],
                         !.endTime = iv[2],
                         !.isAvailable = IF conflict THEN <<FALSE>> ELSE <<>>,
                         !.pc = IF conflict THEN AfterValidation(FALSE)
                                ELSE "calendarQuery",
                         !.error = IF conflict THEN ValidationError(FALSE) ELSE "none"]]
    /\ UNCHANGED <<bookings, calendarEvents>>
    /\ reservationUnchanged

\* isSlotAvailable reads the person's calendar and createBooking tests the answer
CalendarQuery(r) ==
    /\ req[r].pc = "calendarQuery"
    /\ \E fails \in BOOLEAN :
         LET googleBusyTimes ==
                 fetchGoogleCalendarBusyTimes(req[r].userId, req[r].startTime,
                                              req[r].endTime, fails)
             isAvailable ==
                 ~ CalendarConflict(googleBusyTimes, req[r].startTime, req[r].endTime)
         IN req' = [req EXCEPT ![r].isAvailable = <<isAvailable>>,
                               ![r].pc = AfterValidation(isAvailable),
                               ![r].error = ValidationError(isAvailable)]
    /\ UNCHANGED <<bookings, calendarEvents>>
    /\ reservationUnchanged

\* bookingUsers.findFirst and the two tests of the row
FindUser(r) ==
    /\ req[r].pc = "findUser"
    /\ req' = [req EXCEPT ![r] =
         IF req[r].userId \notin DOMAIN bookingUsers
         THEN [@ EXCEPT !.pc = "done", !.error = "Booking user not found"]
         ELSE IF ~ bookingUsers[req[r].userId].isActive
         THEN [@ EXCEPT !.pc = "done", !.error = "User is not accepting bookings"]
         ELSE [@ EXCEPT !.user = <<bookingUsers[req[r].userId]>>,
                        !.pc = IF bookingUsers[req[r].userId].googleCalendarId
                               THEN "createCalendarEvent" ELSE "insert"]]
    /\ UNCHANGED <<bookings, calendarEvents>>
    /\ reservationUnchanged

AfterCalendarEventRethrowing(ok) == IF ok THEN "insert" ELSE "done"

\* the catch block logs and goes on to the insert
AfterCalendarEvent(ok) == "insert"

\* the try block around createCalendarEvent: a failure is logged and
\* swallowed; calendarEvent records which of the two log lines was written
CreateCalendarEvent(r) ==
    /\ req[r].pc = "createCalendarEvent"
    /\ \E ok \in BOOLEAN :
         IF ok
         THEN /\ calendarEvents' =
                   Append(calendarEvents,
                          [id |-> FreshEventId, calendar |-> req[r].userId,
                           start |-> req[r].startTime, end |-> req[r].endTime,
                           kind |-> "busy"])
              /\ req' = [req EXCEPT ![r].googleEventId = FreshEventId,
                                    ![r].calendarEvent = "created",
                                    ![r].writes = @ + 1,
                                    ![r].pc = AfterCalendarEvent(ok)]
         ELSE /\ calendarEvents' = calendarEvents
              /\ req' = [req EXCEPT ![r].calendarEvent = "failed",
                                    ![r].pc = AfterCalendarEvent(ok)]
    /\ UNCHANGED bookings
    /\ reservationUnchanged

\* db.insert(bookings) with status 'confirmed'
InsertBooking(r) ==
    /\ req[r].pc = "insert"
    /\ bookings' = Append(bookings,
                          BookingRow(req[r].userId, req[r].startTime, req[r].endTime,
                                     "confirmed", req[r].googleEventId))
    /\ req' = [req EXCEPT ![r].bookingId = Len(bookings) + 1,
                          ![r].writes = @ + 1,
                          ![r].pc = "done"]
    /\ UNCHANGED calendarEvents
    /\ reservationUnchanged

\* cancelBooking is called and getBooking reads the row and its person
StartCancelBooking(r) ==
    /\ ~ InFlight(r)
    /\ \E bookingId \in 1..MaxRows :
         req' = [req EXCEPT ![r] =
           IF bookingId \notin DOMAIN bookings
              \/ bookings[bookingId].bookingUserId \notin DOMAIN bookingUsers
           THEN [IdleRequest EXCEPT !.op = "cancelBooking", !.bookingId = bookingId,
                                    !.pc = "done", !.error = "Booking not found"]
           ELSE LET booking == bookings[bookingId]
                    user == bookingUsers[booking.bookingUserId]
                IN [IdleRequest EXCEPT
                      !.op = "cancelBooking",
                      !.bookingId = bookingId,
                      !.userId = booking.bookingUserId,
                      !.startTime = booking.startTime,
                      !.endTime = booking.endTime,
                      !.googleEventId = booking.googleEventId,
                      !.user = <<user>>,
                      !.pc = IF booking.googleEventId # 0 /\ user.googleCalendarId
                             THEN "deleteCalendarEvent" ELSE "updateStatus"]]
    /\ UNCHANGED <<bookings, calendarEvents>>
    /\ reservationUnchanged

\* the try block around deleteCalendarEvent: a failure is logged and swallowed
DeleteCalendarEvent(r) ==
    /\ req[r].pc = "deleteCalendarEvent"
    /\ \E ok \in BOOLEAN :
         IF ok /\ \E i \in DOMAIN calendarEvents : calendarEvents[i].id = req[r].googleEventId
         THEN /\ calendarEvents' =
                   SelectSeq(calendarEvents, LAMBDA e : e.id # req[r].googleEventId)
              /\ req' = [req EXCEPT ![r].writes = @ + 1, ![r].pc = "updateStatus"]
         ELSE /\ calendarEvents' = calendarEvents
              /\ req' = [req EXCEPT ![r].pc = "updateStatus"]
    /\ UNCHANGED bookings
    /\ reservationUnchanged

\* db.update(bookings).set({ status: 'cancelled' })
UpdateStatus(r) ==
    /\ req[r].pc = "updateStatus"
    /\ bookings' = [bookings EXCEPT ![req[r].bookingId].status = "cancelled"]
    /\ req' = [req EXCEPT ![r].writes = @ + 1, ![r].pc = "done"]
    /\ UNCHANGED calendarEvents
    /\ reservationUnchanged

RequestStep(r) ==
    \/ StartCreateBooking(r)
    \/ CalendarQuery(r)
    \/ FindUser(r)
    \/ CreateCalendarEvent(r)
    \/ InsertBooking(r)
    \/ StartCancelBooking(r)
    \/ DeleteCalendarEvent(r)
    \/ UpdateStatus(r)

Init ==
    /\ bookingUsers \in
         {[p \in Persons |-> IF p = "p1" THEN UserRow(TRUE, TRUE, "orgA")
                             ELSE UserRow(active, FALSE, "orgA")] : active \in BOOLEAN}
    /\ availabilityRules = NoRules
    /\ bookings = <<>>
    /\ bookingConfigs = <<>>
    /\ calendarEvents \in {<<>>, <<ExternalEvent>>}
    /\ googleCalendarCache = <<>>
    /\ clock = 0
    /\ hostOffset = 0
    /\ throwing = {}
    /\ req = [r \in Requests |-> IdleRequest]
    /\ args = <<>>
    /\ returned = NotCalled
    /\ previous = NoPrevious

\* requests of any number of clients, interleaved at their awaits
Next == \E r \in Requests : RequestStep(r)

Spec == Init /\ [][Next]_vars

\* one request at a time: a request starts only when no other is in flight
NextSeq ==
    \E r \in Requests :
        /\ \A q \in Requests \ {r} : ~ InFlight(q)
        /\ RequestStep(r)

SpecSeq == Init /\ [][NextSeq]_vars

SameReservation(a, b) ==
    /\ a.bookingUserId = b.bookingUserId
    /\ a.startTime = b.startTime
    /\ a.endTime = b.endTime

\* C1: of the createBooking requests for one identical (person, start, end)
\* that run concurrently, each passing isSlotAvailable before any of them has
\* inserted its row, at most one leaves a confirmed booking: no two confirmed
\* rows have the same person and the same interval.
C1_AtMostOneTwinPersists ==
    \A i, j \in DOMAIN bookings :
        (i < j /\ bookings[i].status = "confirmed" /\ bookings[j].status = "confirmed")
            => ~ SameReservation(bookings[i], bookings[j])

Overlapping(a, b) == a.startTime < b.endTime /\ a.endTime > b.startTime

\* C2: with requests processed one at a time and start < end, no two
\* confirmed bookings of one person overlap (a.start < b.end and
\* a.end > b.start) in any reachable state.
C2_NoOverlappingConfirmed ==
    \A i, j \in DOMAIN bookings :
        (/\ i # j
         /\ bookings[i].bookingUserId = bookings[j].bookingUserId
         /\ bookings[i].status = "confirmed"
         /\ bookings[j].status = "confirmed")
            => ~ Overlapping(bookings[i], bookings[j])

Rejected(r) ==
    /\ req[r].op = "createBooking"
    /\ req[r].isAvailable = <<FALSE>>

\* One person holds two abutting confirmed bookings, and the last request,
\* for an interval overlapping one of them, was rejected.
C2_Witness ==
    /\ Len(bookings) = 2
    /\ bookings[1].status = "confirmed"
    /\ bookings[2].status = "confirmed"
    /\ bookings[1].bookingUserId = bookings[2].bookingUserId
    /\ bookings[1].endTime = bookings[2].startTime
    /\ \E r \in Requests :
         /\ Rejected(r)
         /\ req[r].pc = "done"
         /\ req[r].userId = bookings[1].bookingUserId
         /\ req[r].startTime < bookings[1].endTime
         /\ req[r].endTime > bookings[1].startTime

C3_RejectedHasWrittenNothing ==
    \A r \in Requests :
        Rejected(r) =>
            /\ req[r].pc = "done"
            /\ req[r].error = "Time slot is not available"
            /\ req[r].writes = 0
            /\ req[r].googleEventId = 0
            /\ req[r].bookingId = 0

C3_RejectionWritesNothing ==
    /\ (bookings' # bookings \/ calendarEvents' # calendarEvents)
          => \E r \in Requests : req'[r].writes = req[r].writes + 1
    /\ \A r \in Requests :
          (req'[r].isAvailable = <<FALSE>> /\ req[r].isAvailable # <<FALSE>>)
              => (bookings' = bookings /\ calendarEvents' = calendarEvents)

\* C3: a createBooking whose isSlotAvailable answered false ends at once with
\* the error 'Time slot is not available' and has written nothing: it has
\* inserted no booking row and created no calendar event, and the step that
\* rejects it leaves the bookings and the provider's calendar as they were.
C3_UnavailableIsRejectedWithoutWrites ==
    []C3_RejectedHasWrittenNothing /\ [][C3_RejectionWritesNothing]_vars

\* Two requests were rejected: one by a confirmed booking that overlaps it,
\* the other by an event of the person's calendar alone.
C3_Witness ==
    \E r, q \in Requests :
        /\ r # q
        /\ Rejected(r) /\ req[r].pc = "done"
        /\ Rejected(q) /\ req[q].pc = "done"
        /\ ConflictingBooking(req[r].userId, req[r].startTime, req[r].endTime) # {}
        /\ ConflictingBooking(req[q].userId, req[q].startTime, req[q].endTime) = {}
        /\ CalendarConflict(ProviderBusy(req[q].userId, req[q].startTime, req[q].endTime),
                            req[q].startTime, req[q].endTime)

(***************************************************************************)
(* SpecBatch: batchQueryFreeBusy over calendar lists of one to three       *)
(* chunks, and getAvailableSlots while the provider's call may raise       *)
(***************************************************************************)
MaxCalendars == 101

\* list lengths around the chunk boundaries
EntryCounts ==
    {1, BATCH_SIZE - 1, BATCH_SIZE, BATCH_SIZE + 1, 2 * BATCH_SIZE, MaxCalendars}

\* the people of a large organization are named "1", "2", ...
CalendarList(n) == [i \in 1..n |-> ToString(i)]

Reversed(s) == [i \in 1..Len(s) |-> s[Len(s) + 1 - i]]

BusyCalendars == <<"1", ToString(BATCH_SIZE), ToString(BATCH_SIZE + 1), "p1">>

BusyEvent(calendar) ==
    [id |-> -1, calendar |-> calendar, start |-> T0 + 2 * Step, end |-> T0 + 4 * Step,
     kind |-> "busy"]

InitBatch ==
    /\ bookingUsers = [p \in Persons |-> UserRow(TRUE, TRUE, "orgA")]
    /\ availabilityRules = [p \in Persons |-> IF p = "p1" THEN <<RuleA>> ELSE <<RuleB>>]
    /\ bookings = <<>>
    /\ bookingConfigs = <<>>
    /\ \E busy \in SUBSET Range(BusyCalendars) :
          calendarEvents =
              MapSeq(SelectSeq(BusyCalendars, LAMBDA c : c \in busy), BusyEvent)
    /\ googleCalendarCache = <<>>
    /\ clock = 0
    /\ hostOffset = 0
    /\ throwing = {}
    /\ req = <<>>
    /\ \E n \in EntryCounts :
       \E entries \in {CalendarList(n), Reversed(CalendarList(n))} :
          args = [entries |-> entries, startTime |-> MinutesPerDay,
                  endTime |-> 2 * MinutesPerDay]
    /\ returned = NotCalled
    /\ previous = NoPrevious

ApplyBatchQueryFreeBusy ==
    /\ returned = NotCalled
    /\ \E failedBatches \in SUBSET (0..(BatchCount(args.entries) - 1)) :
          returned' = <<[result |-> batchQueryFreeBusy(args.entries, args.startTime,
                                                       args.endTime, failedBatches),
                         batches |-> Batches(args.entries),
                         failed |-> failedBatches]>>
    /\ UNCHANGED <<dbVars, worldVars, args>>

GetAvailableSlotsOfBatch ==
    /\ returned = NotCalled
    /\ \E failedBatches \in SUBSET {0} :
          GetAvailableSlots("orgA", MinutesPerDay, EndDate, 0, failedBatches)

NextBatch ==
    \/ ApplyBatchQueryFreeBusy
    \/ GetAvailableSlotsOfBatch

SpecBatch == InitBatch /\ [][NextBatch]_vars

BatchCalled == Called /\ "entries" \in DOMAIN args

SlotsCalled == Called /\ "organizationId" \in DOMAIN args

\* C11: batchQueryFreeBusy returns a map in which every person of a chunk
\* whose provider call failed has the empty busy set and every person of the
\* other chunks has what the provider reports; getAvailableSlots returns its
\* slot list all the same, computed with empty busy sets for the people of
\* the failed chunk.
C11_FailedChunkDegradesToEmpty ==
    /\ BatchCalled =>
         /\ DOMAIN Ret.result = Range(args.entries)
         /\ \A i \in DOMAIN args.entries :
               Ret.result[args.entries[i]] =
                  IF ((i - 1) \div BATCH_SIZE) \in Ret.failed
                  THEN <<>>
                  ELSE ProviderBusy(args.entries[i], args.startTime, args.endTime)
    /\ SlotsCalled =>
         /\ \A u \in Ret.fetched :
               EventsUsed(u) = IF 0 \in Ret.failed THEN <<>>
                               ELSE ProviderBusy(u, args.startDate, args.endDate)
         /\ Ret.slots =
               SlotsOfCall(args.organizationId, args.startDate, args.endDate,
                           args.durationMinutes,
                           [u \in Ret.fetched |-> EventsUsed(u)], clock, hostOffset)

\* Of two chunks the first failed and the second did not; each holds a
\* calendar the provider reports busy.
C11_Witness ==
    /\ BatchCalled
    /\ Len(args.entries) > BATCH_SIZE
    /\ Ret.failed = {0}
    /\ \E i \in 1..BATCH_SIZE :
          ProviderBusy(args.entries[i], args.startTime, args.endTime) # <<>>
    /\ \E i \in (BATCH_SIZE + 1)..Len(args.entries) :
          Ret.result[args.entries[i]] # <<>>

\* C20: no provider call of batchQueryFreeBusy carries more than 50
\* calendars, every requested person is in exactly one chunk, and the merged
\* result has an entry for every requested person.
C20_ChunksOfAtMostFifty ==
    BatchCalled =>
        /\ \A k \in DOMAIN Ret.batches :
              Len(Ret.batches[k]) >= 1 /\ Len(Ret.batches[k]) <= BATCH_SIZE
        /\ \A u \in Range(args.entries) :
              Cardinality({k \in DOMAIN Ret.batches : u \in Range(Ret.batches[k])}) = 1
        /\ DOMAIN Ret.result = Range(args.entries)

\* A list of more than two full chunks was queried.
C20_Witness ==
    /\ BatchCalled
    /\ Len(args.entries) > 2 * BATCH_SIZE
    /\ Len(Ret.batches) = 3
    /\ Len(Ret.batches[1]) = BATCH_SIZE
    /\ Len(Ret.batches[3]) < BATCH_SIZE

(***************************************************************************)
(* SpecLife: one operation at a time on one organization: availability     *)
(* queries, reservations, cancellations and admin edits of the people      *)
(***************************************************************************)
Organizations == {"orgA", "orgB"}

NoRequestInFlight == \A r \in Requests : ~ InFlight(r)

InitLife ==
    /\ bookingUsers \in
         {[p \in Persons |-> IF p = "p1" THEN UserRow(TRUE, TRUE, "orgA")
                             ELSE UserRow(TRUE, FALSE, org)] : org \in Organizations}
    /\ availabilityRules = [p \in Persons |-> <<RuleA>>]
    /\ bookings = <<>>
    /\ bookingConfigs = <<>>
    /\ calendarEvents = <<>>
    /\ googleCalendarCache = <<>>
    /\ clock = 0
    /\ hostOffset = 0
    /\ throwing = {}
    /\ req = [r \in Requests |-> IdleRequest]
    /\ args = <<>>
    /\ returned = NotCalled
    /\ previous = NoPrevious

\* GET /api/public/availability for the organization, Monday to Tuesday
LifeGetAvailableSlots ==
    /\ NoRequestInFlight
    /\ returned = NotCalled
    /\ \E failedBatches \in SUBSET {0} :
          GetAvailableSlots("orgA", MinutesPerDay, EndDate, 0, failedBatches)

\* the response goes out to the caller
Respond ==
    /\ returned # NotCalled
    /\ returned' = NotCalled
    /\ previous' = NoPrevious
    /\ args' = <<>>
    /\ UNCHANGED <<dbVars, calendarEvents, googleCalendarCache, clock, hostOffset,
                   throwing, req>>

\* createBooking and cancelBooking of one caller, step by step
LifeRequest ==
    /\ returned = NotCalled
    /\ RequestStep(1)

\* PUT /api/admin/users/:id sets isActive on the row of that id and organization
HandleUpdateUser ==
    /\ NoRequestInFlight
    /\ returned = NotCalled
    /\ \E userId \in Persons, orgId \in Organizations, isActive \in BOOLEAN :
          bookingUsers' =
             IF bookingUsers[userId].organizationId = orgId
             THEN [bookingUsers EXCEPT ![userId].isActive = isActive]
             ELSE bookingUsers
    /\ UNCHANGED <<availabilityRules, bookings, bookingConfigs, calendarEvents,
                   googleCalendarCache, clock, hostOffset, throwing, req, args,
                   returned, previous>>

\* a minute passes between two operations, once: the cache entries written
\* before it are expired after it
LifeTick ==
    /\ NoRequestInFlight
    /\ returned = NotCalled
    /\ clock = 0
    /\ clock' = clock + 1
    /\ UNCHANGED <<dbVars, calendarEvents, googleCalendarCache, hostOffset, throwing,
                   req, args, returned, previous>>

NextLife ==
    \/ LifeGetAvailableSlots
    \/ Respond
    \/ LifeRequest
    \/ HandleUpdateUser
    \/ LifeTick

SpecLife == InitLife /\ [][NextLife]_vars

C12_OwnersAreActiveMembers ==
    SlotsCalled =>
        \A i \in DOMAIN Ret.slots :
            /\ bookingUsers[Ret.slots[i].userId].isActive
            /\ bookingUsers[Ret.slots[i].userId].organizationId = args.organizationId

C12_InsertOnlyForActive ==
    Len(bookings') > Len(bookings)
        => bookingUsers[bookings'[Len(bookings')].bookingUserId].isActive

PaddedOverlap(c, start, end) ==
    timesOverlap(c.startTime - ResolveBuffer(bookingConfigs),
                 c.endTime + ResolveBuffer(bookingConfigs), start, end)

RuleEmpty == Rule(1, 540, 540, TRUE)
RuleBackwards == Rule(1, 540 + 4 * Step, 540, TRUE)

MaxEditRules == 2

EditBodies == SeqsUpTo({RuleA, RuleC, RuleOff, RuleEmpty, RuleBackwards}, MaxEditRules)

InitRules ==
    /\ bookingUsers = NoUsers
    /\ availabilityRules \in
         {[p \in Persons |-> IF p = "p1" THEN s1 ELSE <<RuleC>>] :
             s1 \in {<<>>, <<RuleA>>, <<RuleA, RuleB>>}}
    /\ bookings = <<>>
    /\ bookingConfigs = <<>>
    /\ QuietWorld
    /\ args = <<>>
    /\ returned = NotCalled

\* handleUpdateAvailability: delete the person's rules, insert the rules of
\* the body, read the person's rules back and answer with them
HandleUpdateAvailability ==
    /\ returned = NotCalled
    /\ \E userId \in Persons, rules \in EditBodies :
         LET newRules == [availabilityRules EXCEPT ![userId] = rules]
         IN /\ availabilityRules' = newRules
            /\ args' = [userId |-> userId, rules |-> rules]
            /\ returned' = <<[success |-> TRUE, data |-> newRules[userId]]>>
    /\ UNCHANGED <<bookingUsers, bookings, bookingConfigs, worldVars>>

\* the response goes out and the next edit may come
RespondToEdit ==
    /\ returned # NotCalled
    /\ returned' = NotCalled
    /\ args' = <<>>
    /\ UNCHANGED <<dbVars, worldVars>>

NextRules ==
    \/ HandleUpdateAvailability
    \/ RespondToEdit

SpecRules == InitRules /\ [][NextRules]_vars

InvalidRule(rule) == rule.startTime >= rule.endTime

C14_EditStep ==
    (/\ returned = NotCalled
     /\ returned' # NotCalled
     /\ \E i \in DOMAIN args'.rules : InvalidRule(args'.rules[i]))
        => (/\ availabilityRules' = availabilityRules
            /\ ~ returned'[1].success)

\* C14: a schedule edit whose body holds a rule with start = end or
\* start > end is answered with an error and leaves the stored rules of the
\* person as they were.
C14_InvalidEditIsRejected == [][C14_EditStep]_vars

C15_FailedEventStillBooks ==
    \A r \in Requests :
        /\ (req[r].op = "createBooking" /\ req[r].calendarEvent # "none")
              => (req[r].isAvailable = <<TRUE>> /\ req[r].user # <<>>)
        /\ (req[r].op = "createBooking" /\ req[r].calendarEvent = "failed")
              => /\ req[r].pc \in {"insert", "done"}
                 /\ req[r].googleEventId = 0
                 /\ req[r].pc = "insert" => req[r].bookingId = 0
                 /\ req[r].pc = "done" =>
                       /\ req[r].error = "none"
                       /\ req[r].bookingId \in DOMAIN bookings
                       /\ bookings[req[r].bookingId].googleEventId = 0
                       /\ bookings[req[r].bookingId].bookingUserId = req[r].userId
                       /\ bookings[req[r].bookingId].startTime = req[r].startTime
                       /\ bookings[req[r].bookingId].endTime = req[r].endTime

C15_EventBeforeInsert ==
    \A r \in Requests :
        /\ req'[r].calendarEvent # req[r].calendarEvent /\ req'[r].calendarEvent # "none"
              => /\ req[r].isAvailable = <<TRUE>>
                 /\ req[r].bookingId = 0
                 /\ bookings' = bookings
        /\ (req[r].pc = "insert" /\ req'[r].pc = "done")
              => bookings' =
                    Append(bookings,
                           BookingRow(req[r].userId, req[r].startTime, req[r].endTime,
                                      "confirmed", req[r].googleEventId))

Bodies ==
    {[userId |-> u, startTime |-> iv[1], endTime |-> iv[2], email |-> e] :
        u \in Persons, iv \in RequestIntervals, e \in BOOLEAN}

HandlerAt(at) == args # <<>> /\ args.at = at

StatusAfterEmailsFailing(emails) == IF emails = "failed" THEN 500 ELSE 201

\* the catch around the two sends only logs: the response is 201 either way
StatusAfterEmails(emails) == 201

\* the body is parsed and validated and the person is looked up
HandlerStart ==
    /\ args = <<>>
    /\ returned = NotCalled
    /\ \E body \in Bodies :
         IF ~ body.email
         THEN /\ returned' = <<[status |-> 400, error |-> "Visitor email is required",
                                bookingId |-> 0, emails |-> "none"]>>
              /\ args' = [body |-> body, at |-> "responded"]
         ELSE /\ returned' = returned
              /\ args' = [body |-> body, at |-> "createBooking"]
    /\ req' = [req EXCEPT ![1] = IdleRequest]
    /\ UNCHANGED <<dbVars, calendarEvents, googleCalendarCache, clock, hostOffset,
                   throwing, previous>>

\* bookingService.createBooking for the body, step by step
HandlerCreateBooking ==
    /\ HandlerAt("createBooking")
    /\ IF req[1].pc = "idle"
       THEN /\ StartCreateBooking(1)
            /\ req'[1].userId = args.body.userId
            /\ req'[1].startTime = args.body.startTime
            /\ req'[1].endTime = args.body.endTime
       ELSE \/ CalendarQuery(1)
            \/ FindUser(1)
            \/ CreateCalendarEvent(1)
            \/ InsertBooking(1)

\* createBooking threw: the outer catch answers 500 with the message
HandlerFailed ==
    /\ HandlerAt("createBooking")
    /\ req[1].pc = "done"
    /\ req[1].error # "none"
    /\ returned' = <<[status |-> 500, error |-> req[1].error, bookingId |-> 0,
                      emails |-> "none"]>>
    /\ args' = [args EXCEPT !.at = "responded"]
    /\ UNCHANGED <<dbVars, calendarEvents, googleCalendarCache, clock, hostOffset,
                   throwing, req, previous>>

\* bookingService.updateBooking writes visitorData and notes of the new row
HandlerUpdateBooking ==
    /\ HandlerAt("createBooking")
    /\ req[1].pc = "done"
    /\ req[1].error = "none"
    /\ args' = [args EXCEPT !.at = "sendEmails"]
    /\ UNCHANGED <<dbVars, calendarEvents, googleCalendarCache, clock, hostOffset,
                   throwing, req, returned, previous>>

\* the two sends inside try/catch, then the response
HandlerSendEmails ==
    /\ HandlerAt("sendEmails")
    /\ \E emails \in {"sent", "failed"} :
          returned' = <<[status |-> StatusAfterEmails(emails), error |-> "none",
                         bookingId |-> req[1].bookingId, emails |-> emails]>>
    /\ args' = [args EXCEPT !.at = "responded"]
    /\ UNCHANGED <<dbVars, calendarEvents, googleCalendarCache, clock, hostOffset,
                   throwing, req, previous>>

\* the response goes out and the next request may come
HandlerDone ==
    /\ HandlerAt("responded")
    /\ args' = <<>>
    /\ returned' = NotCalled
    /\ UNCHANGED <<dbVars, calendarEvents, googleCalendarCache, clock, hostOffset,
                   throwing, req, previous>>

NextHandler ==
    \/ HandlerStart
    \/ HandlerCreateBooking
    \/ HandlerFailed
    \/ HandlerUpdateBooking
    \/ HandlerSendEmails
    \/ HandlerDone

SpecHandler == Init /\ [][NextHandler]_vars

\* C16: when the sending of the emails fails after the row was inserted, the
\* request is answered with 201 and the id of the new row, and that row is
\* in the table with status confirmed.
C16_EmailFailureKeepsBooking ==
    (Called /\ Ret.emails = "failed") =>
        /\ Ret.status = 201
        /\ Ret.bookingId \in DOMAIN bookings
        /\ bookings[Ret.bookingId].status = "confirmed"
        /\ bookings[Ret.bookingId].bookingUserId = args.body.userId
        /\ bookings[Ret.bookingId].startTime = args.body.startTime
        /\ bookings[Ret.bookingId].endTime = args.body.endTime

\* The second booking of a person was answered although its emails failed.
C16_Witness ==
    /\ Called
    /\ Ret.emails = "failed"
    /\ Ret.bookingId = 2
    /\ bookings[1].bookingUserId = bookings[2].bookingUserId

(***************************************************************************)
(* getAvailableDays: the day-level heuristic                               *)
(***************************************************************************)
\* toISOString().split('T')[0]: the UTC date of an instant, held as the
\* number of the day; the strings sort as the numbers do
DateStr(t) == UTCDay(t)

\* the while loop over currentDate: one entry per walked day that has rules
\* for its weekday and whose walked instant is not before now
RECURSIVE CandidateDates(_, _, _, _)
CandidateDates(currentDate, endDate, availableDaysOfWeek, now) ==
    IF ~ (currentDate <= endDate) THEN <<>>
    ELSE (IF UTCDayOfWeek(currentDate) \in availableDaysOfWeek /\ currentDate >= now
          THEN <<[dateStr |-> DateStr(currentDate),
                  dayOfWeek |-> UTCDayOfWeek(currentDate)]>>
          ELSE <<>>)
         \o CandidateDates(currentDate + MinutesPerDay, endDate, availableDaysOfWeek, now)

RECURSIVE SumSeq(_)
SumSeq(s) == IF s = <<>> THEN 0 ELSE Head(s) + SumSeq(Tail(s))

\* Math.floor(minutesAvailable / duration)
SlotsForRule(rule, duration) == (rule.endTime - rule.startTime) \div duration

\* potentialSlotsByUserDow.get(userId)?.get(dayOfWeek), 0 standing for undefined
PotentialSlots(rules, dayOfWeek, duration) ==
    SumSeq(MapSeq(SelectSeq(rules, LAMBDA r : r.dayOfWeek = dayOfWeek),
                  LAMBDA r : SlotsForRule(r, duration)))

\* bookingsByUserDate.get(userId)?.get(dateStr) of the bookings the query returned
UserDateBookings(allBookings, userId, dateStr) ==
    SelectSeq(allBookings, LAMBDA b :
        b.bookingUserId = userId /\ DateStr(b.startTime) = dateStr)

RECURSIVE SortedDates(_)
SortedDates(S) ==
    IF S = {} THEN <<>>
    ELSE LET m == CHOOSE x \in S : \A y \in S : x <= y
         IN <<m>> \o SortedDates(S \ {m})

getAvailableDays(organizationId, startDate, endDate, durationMinutes, now) ==
    LET duration == ResolveDuration(durationMinutes, bookingConfigs)
        users == ActiveUsers(organizationId)
        rulesOf(u) == ActiveRules(u)
        availableDaysOfWeek ==
            UNION {{rulesOf(u)[i].dayOfWeek : i \in DOMAIN rulesOf(u)} : u \in Range(users)}
        candidateDates == CandidateDates(startDate, endDate, availableDaysOfWeek, now)
        allBookings == WindowBookings(Range(users), startDate, endDate)
        hasRoom(userId, c) ==
            LET potentialSlots == PotentialSlots(rulesOf(userId), c.dayOfWeek, duration)
            IN /\ potentialSlots # 0
               /\ Len(UserDateBookings(allBookings, userId, c.dateStr)) < potentialSlots
    IN IF users = <<>> THEN <<>>
       ELSE SortedDates({candidateDates[i].dateStr :
                            i \in {j \in DOMAIN candidateDates :
                                      \E u \in Range(users) : hasRoom(u, candidateDates[j])}})

\* Monday 09:00-09:30 and Tuesday 09:00-10:00 for p1, the latter also
\* cancelled, and Tuesday 09:00-09:30 for p2
DayRows ==
    {BookingRow("p1", T0, T0 + 2 * Step, "confirmed", 0),
     BookingRow("p1", T0 + MinutesPerDay, T0 + MinutesPerDay + 4 * Step, "confirmed", 0),
     BookingRow("p1", T0 + MinutesPerDay, T0 + MinutesPerDay + 4 * Step, "cancelled", 0),
     BookingRow("p2", T0 + MinutesPerDay, T0 + MinutesPerDay + 2 * Step, "confirmed", 0)}

\* Monday 00:00 and 12:00; Tuesday 00:00 and 23:00, Wednesday 00:00
DayStarts == {MinutesPerDay, MinutesPerDay + 720}
DayEnds == {2 * MinutesPerDay, 2 * MinutesPerDay + 1380, 3 * MinutesPerDay}

InitDays ==
    /\ bookingUsers \in
         {[p \in Persons |-> IF p = "p1" THEN UserRow(TRUE, FALSE, "orgA")
                             ELSE UserRow(active, FALSE, "orgA")] : active \in BOOLEAN}
    /\ availabilityRules \in
         {[p \in Persons |-> IF p = "p1" THEN s1 ELSE s2] :
             s1 \in {<<>>, <<RuleA>>, <<RuleC>>, <<RuleA, RuleC>>, <<RuleC, RuleC>>},
             s2 \in {<<>>, <<RuleC>>, <<RuleOff>>}}
    /\ bookings \in SeqsUpTo(DayRows, MaxBookings)
    /\ bookingConfigs = <<>>
    /\ calendarEvents = <<>>
    /\ googleCalendarCache = <<>>
    /\ clock \in {0, MinutesPerDay, T0}
    /\ hostOffset = 0
    /\ throwing = {}
    /\ req = <<>>
    /\ args = <<>>
    /\ returned = NotCalled
    /\ previous = NoPrevious

GetAvailableDays ==
    /\ returned = NotCalled
    /\ \E startDate \in DayStarts, endDate \in DayEnds, durationMinutes \in {0, 4 * Step} :
         /\ args' = [organizationId |-> "orgA", startDate |-> startDate,
                     endDate |-> endDate, durationMinutes |-> durationMinutes]
         /\ returned' = <<[days |-> getAvailableDays("orgA", startDate, endDate,
                                                     durationMinutes, clock)]>>
    /\ UNCHANGED <<dbVars, worldVars>>

NextDays == GetAvailableDays

SpecDays == InitDays /\ [][NextDays]_vars

\* the instants the loop walks: startDate, startDate + 1 day, ... up to endDate
WalkedInstants == {t \in {args.startDate + k * MinutesPerDay : k \in 0..2} : t <= args.endDate}

\* sum over the person's active rules of that weekday of floor(minutes / duration)
TheoreticalMax(u, dayOfWeek) ==
    LET rs == SelectSeq(availabilityRules[u],
                        LAMBDA r : r.isActive /\ r.dayOfWeek = dayOfWeek)
    IN SumSeq([i \in DOMAIN rs |-> (rs[i].endTime - rs[i].startTime) \div CallDuration])

ConfirmedStartingOn(u, d) ==
    Cardinality({i \in ConfirmedOf(u) : UTCDay(bookings[i].startTime) = d})

DayHasRoom(t) ==
    \E u \in Persons :
        /\ bookingUsers[u].isActive
        /\ bookingUsers[u].organizationId = args.organizationId
        /\ TheoreticalMax(u, UTCDayOfWeek(t)) > ConfirmedStartingOn(u, UTCDay(t))

\* C17: getAvailableDays returns exactly the UTC dates of the walked range,
\* ascending and without repeats, that are not before now and on which some
\* active person of the organization has a theoretical maximum slot count
\* for the weekday greater than the number of that person's confirmed
\* bookings starting on the date.
C17_DaysAreThoseWithRoom ==
    Called =>
        /\ \A i, j \in DOMAIN Ret.days : i < j => Ret.days[i] < Ret.days[j]
        /\ Range(Ret.days) = {UTCDay(t) : t \in {w \in WalkedInstants : w >= clock /\ DayHasRoom(w)}}

(***************************************************************************)
(* SpecGuard: isSlotAvailable against both busy sources                    *)
(***************************************************************************)
isSlotAvailable(userId, startTime, endTime, fails) ==
    /\ ConflictingBooking(userId, startTime, endTime) = {}
    /\ ~ CalendarConflict(fetchGoogleCalendarBusyTimes(userId, startTime, endTime, fails),
                          startTime, endTime)

EventKinds == {"busy", "allDay", "cancelled", "transparent"}

\* an event that ends where [09:00, 09:30) starts and one across 09:15-09:45
GuardEvents ==
    {[id |-> -1, calendar |-> "p1", start |-> iv[1], end |-> iv[2], kind |-> k] :
        iv \in {<<T0 - 2 * Step, T0>>, <<T0 + Step, T0 + 3 * Step>>}, k \in EventKinds}

MaxEvents == 2

GuardRows ==
    {BookingRow("p1", T0 + 2 * Step, T0 + 4 * Step, st, 0) : st \in {"confirmed", "cancelled"}}
    \cup {BookingRow("p2", T0, T0 + 2 * Step, "confirmed", 0)}

InitGuard ==
    /\ bookingUsers \in
         {[p \in Persons |-> UserRow(TRUE, p = "p1" /\ bound, "orgA")] : bound \in BOOLEAN}
    /\ availabilityRules = NoRules
    /\ bookings \in SeqsUpTo(GuardRows, MaxBookings)
    /\ bookingConfigs = <<>>
    /\ calendarEvents \in SeqsUpTo(GuardEvents, MaxEvents)
    /\ googleCalendarCache = <<>>
    /\ clock = 0
    /\ hostOffset = 0
    /\ throwing = {}
    /\ req = <<>>
    /\ args = <<>>
    /\ returned = NotCalled
    /\ previous = NoPrevious

ApplyIsSlotAvailable ==
    /\ returned = NotCalled
    /\ \E userId \in Persons, iv \in RequestIntervals, fails \in BOOLEAN :
         /\ args' = [userId |-> userId, startTime |-> iv[1], endTime |-> iv[2]]
         /\ returned' = <<[isAvailable |-> isSlotAvailable(userId, iv[1], iv[2], fails),
                           failed |-> fails]>>
    /\ UNCHANGED <<dbVars, worldVars>>

NextGuard == ApplyIsSlotAvailable

SpecGuard == InitGuard /\ [][NextGuard]_vars

NoConfirmedOverlap ==
    \A i \in ConfirmedOf(args.userId) :
        ~ (bookings[i].startTime < args.endTime /\ bookings[i].endTime > args.startTime)

\* the events of the person's calendar that count as busy and overlap the interval
BusyEventsOverlapping ==
    {i \in DOMAIN calendarEvents :
        /\ calendarEvents[i].calendar = args.userId
        /\ calendarEvents[i].kind = "busy"
        /\ calendarEvents[i].start < args.endTime
        /\ calendarEvents[i].end > args.startTime}

\* C18 as stated: isSlotAvailable returns true if and only if no confirmed
\* booking of the person overlaps the interval and no event of the person's
\* calendar that counts as busy overlaps it.
C18_TrueIffNoBookingAndNoBusyEvent ==
    Called => (Ret.isAvailable <=> (NoConfirmedOverlap /\ BusyEventsOverlapping = {}))

\* C18 amended: isSlotAvailable returns true if and only if no confirmed
\* booking of the person overlaps the interval and either the person has no
\* calendar, or the read of the calendar failed, or no event that counts as
\* busy overlaps the interval; all-day, cancelled and transparent events
\* never make it return false.
C18_TrueIffNoBookingAndNoBusyEventRead ==
    Called =>
        (Ret.isAvailable <=>
            /\ NoConfirmedOverlap
            /\ \/ ~ bookingUsers[args.userId].googleCalendarId
               \/ Ret.failed
               \/ BusyEventsOverlapping = {})

\* The calendar was read; an all-day event lies across the interval and a
\* busy event ends where it starts, and the answer is true.
C18_Witness ==
    /\ Called
    /\ ~ Ret.failed
    /\ Ret.isAvailable
    /\ bookingUsers[args.userId].googleCalendarId
    /\ \E i, j \in DOMAIN calendarEvents :
          /\ calendarEvents[i].kind = "allDay"
          /\ calendarEvents[i].start < args.endTime
          /\ calendarEvents[i].end > args.startTime
          /\ calendarEvents[j].kind = "busy"
          /\ calendarEvents[j].end = args.startTime

(***************************************************************************)
(* Repeated and overlapping rules of one weekday                           *)
(***************************************************************************)
\* C19: getAvailableSlots never returns two slots with the same person, start
\* and end, also when a person has repeated or overlapping rules for one
\* weekday.
C19_NoTwoEqualSlots ==
    Called =>
        \A i, j \in 1..Len(Ret.slots) :
            (/\ Ret.slots[i].userId = Ret.slots[j].userId
             /\ Ret.slots[i].startTime = Ret.slots[j].startTime
             /\ Ret.slots[i].endTime = Ret.slots[j].endTime) => i = j

(***************************************************************************)
(* SpecStale: concurrent getAvailableSlots calls, one step per await of    *)
(* the batch fetch, with the sweep, the clock and the provider's data      *)
(* changing in between                                                     *)
(***************************************************************************)
MaxCalls == 2

Calls == 1..MaxCalls

NoMap == [u \in {} |-> <<>>]

IdleCall ==
    [pc |-> "idle", startDate |-> 0, now |-> 0, hits |-> NoMap, served |-> NoMap,
     usersToFetch |-> <<>>, busyTimesByUser |-> NoMap, obtainedAt |-> 0]

NowOfStoreLate(lookupNow, storeTime) == storeTime

\* const now = Date.now() of line 340 is the now of line 393
NowOfStore(lookupNow, storeTime) == lookupNow

InitStale ==
    /\ bookingUsers \in
         {[p \in Persons |-> UserRow(TRUE, p = "p1" \/ bound, "orgA")] : bound \in BOOLEAN}
    /\ availabilityRules = [p \in Persons |-> <<RuleA>>]
    /\ bookings = <<>>
    /\ bookingConfigs = <<>>
    /\ calendarEvents = <<>>
    /\ googleCalendarCache = <<>>
    /\ clock = 0
    /\ hostOffset = 0
    /\ throwing = {}
    /\ req = [c \in Calls |-> IdleCall]
    /\ args = <<>>
    /\ returned = NotCalled
    /\ previous = NoPrevious

staleUnchanged == UNCHANGED <<dbVars, calendarEvents, clock, hostOffset, throwing, args, previous>>

\* lines 340-365: the cache is consulted for every person with a calendar; an
\* entry that is not fresh is deleted and its person goes to usersToFetch
CacheLookup(c) ==
    /\ req[c].pc = "idle"
    /\ \E startDate \in StartDates :
         LET users == UsersWithCalendar(ActiveUsers("orgA"))
             key(u) == CacheKey(u, startDate, EndDate)
             fresh(u) == CacheFresh(googleCalendarCache, key(u), clock)
             hits == {u \in Range(users) : fresh(u)}
             usersToFetch == SelectSeq(users, LAMBDA u : ~ fresh(u))
             dropped == {key(u) : u \in Range(usersToFetch)}
         IN /\ req' = [req EXCEPT ![c] =
                         [pc |-> IF usersToFetch = <<>> THEN "compute" ELSE "query",
                          startDate |-> startDate,
                          now |-> clock,
                          hits |-> [u \in hits |-> googleCalendarCache[key(u)].data],
                          served |-> [u \in hits |->
                                        [age |-> clock - googleCalendarCache[key(u)].obtainedAt,
                                         from |-> googleCalendarCache[key(u)].from]],
                          usersToFetch |-> usersToFetch,
                          busyTimesByUser |-> NoMap,
                          obtainedAt |-> 0]]
            /\ googleCalendarCache' =
                  [k \in (DOMAIN googleCalendarCache) \ dropped |-> googleCalendarCache[k]]
    /\ returned' = returned
    /\ staleUnchanged

\* lines 371-376: the provider answers the free/busy query, or the chunk fails
FreeBusyAnswer(c) ==
    /\ req[c].pc = "query"
    /\ \E failedBatches \in SUBSET {0} :
         req' = [req EXCEPT ![c].pc = "store",
                            ![c].busyTimesByUser =
                                batchQueryFreeBusy(req[c].usersToFetch, req[c].startDate,
                                                   EndDate, failedBatches),
                            ![c].obtainedAt = clock]
    /\ UNCHANGED <<googleCalendarCache, returned>>
    /\ staleUnchanged

\* lines 378-395: every answer is put into the cache under its person's key
CacheStore(c) ==
    /\ req[c].pc = "store"
    /\ LET key(u) == CacheKey(u, req[c].startDate, EndDate)
           fetched == DOMAIN req[c].busyTimesByUser
           fetchKeys == {key(u) : u \in fetched}
           owner(k) == CHOOSE u \in fetched : key(u) = k
       IN googleCalendarCache' =
             [k \in (DOMAIN googleCalendarCache) \cup fetchKeys |->
                IF k \in fetchKeys
                THEN [data |-> req[c].busyTimesByUser[owner(k)],
                      expiresAt |-> ExpiresAt(NowOfStore(req[c].now, clock)),
                      obtainedAt |-> req[c].obtainedAt,
                      from |-> <<owner(k), req[c].startDate, EndDate>>]
                ELSE googleCalendarCache[k]]
    /\ req' = [req EXCEPT ![c].pc = "compute"]
    /\ returned' = returned
    /\ staleUnchanged

\* lines 134-218: the slots are computed from the map of the batch fetch and
\* the call returns
FinishCall(c) ==
    /\ req[c].pc = "compute"
    /\ LET result == [u \in (DOMAIN req[c].hits) \cup (DOMAIN req[c].busyTimesByUser) |->
                        IF u \in DOMAIN req[c].hits THEN req[c].hits[u]
                        ELSE req[c].busyTimesByUser[u]]
       IN returned' = <<[slots |-> SlotsOfCall("orgA", req[c].startDate, EndDate, 0,
                                               result, clock, hostOffset)]>>
    /\ req' = [req EXCEPT ![c] = IdleCall]
    /\ UNCHANGED googleCalendarCache
    /\ staleUnchanged

CallStep(c) ==
    \/ CacheLookup(c)
    \/ FreeBusyAnswer(c)
    \/ CacheStore(c)
    \/ FinishCall(c)

NextStale ==
    \/ \E c \in Calls : CallStep(c)
    \/ ProviderChange
    \/ Tick
    \/ Sweep

SpecStale == InitStale /\ [][NextStale]_vars

UpdateBodies == {[notes |-> "note"]}

\* { ...updates, updatedAt } over the row
Spread(row, updates) ==
    [f \in (DOMAIN row) \cup (DOMAIN updates) |->
        IF f \in DOMAIN updates THEN updates[f] ELSE row[f]]

UpdatedRowConfirming(row, updates) == [Spread(row, updates) EXCEPT !.status = "confirmed"]

\* db.update(bookings).set({ ...updates, updatedAt: new Date() })
UpdatedRow(row, updates) == Spread(row, updates)

\* updateBooking is called and getBooking reads the row and its person
StartUpdateBooking(r) ==
    /\ ~ InFlight(r)
    /\ \E bookingId \in 1..MaxRows :
         req' = [req EXCEPT ![r] =
           IF bookingId \notin DOMAIN bookings
              \/ bookings[bookingId].bookingUserId \notin DOMAIN bookingUsers
           THEN [IdleRequest EXCEPT !.op = "updateBooking", !.bookingId = bookingId,
                                    !.pc = "done", !.error = "Booking not found"]
           ELSE [IdleRequest EXCEPT !.op = "updateBooking", !.bookingId = bookingId,
                                    !.userId = bookings[bookingId].bookingUserId,
                                    !.user = <<bookingUsers[bookings[bookingId].bookingUserId]>>,
                                    !.pc = "updateRow"]]
    /\ UNCHANGED <<bookings, calendarEvents>>
    /\ reservationUnchanged

\* the update of the row where id = bookingId
UpdateRow(r) ==
    /\ req[r].pc = "updateRow"
    /\ \E updates \in UpdateBodies :
         bookings' = [bookings EXCEPT ![req[r].bookingId] = UpdatedRow(@, updates)]
    /\ req' = [req EXCEPT ![r].writes = @ + 1, ![r].pc = "done"]
    /\ UNCHANGED calendarEvents
    /\ reservationUnchanged

NextTerminal ==
    \E r \in Requests :
        \/ RequestStep(r)
        \/ StartUpdateBooking(r)
        \/ UpdateRow(r)

InitTerminal ==
    /\ Init
    /\ bookingUsers["p2"].isActive
    /\ calendarEvents = <<>>

SpecTerminal == InitTerminal /\ [][NextTerminal]_vars

C23_CancelledStays ==
    /\ Len(bookings') >= Len(bookings)
    /\ \A i \in DOMAIN bookings :
          /\ bookings'[i].bookingUserId = bookings[i].bookingUserId
          /\ bookings'[i].startTime = bookings[i].startTime
          /\ bookings'[i].endTime = bookings[i].endTime
          /\ bookings[i].status = "cancelled" => bookings'[i].status = "cancelled"

\* C23: once a booking's status is cancelled, no step of a createBooking,
\* cancelBooking or updateBooking call makes it confirmed again, and no step
\* removes a booking row.
C23_CancelledIsTerminal == [][C23_CancelledStays]_vars

\* A cancelled row has been written by updateBooking, and the same interval has
\* been booked again in a new row, and the row is still cancelled.
C23_Witness ==
    \E i, j \in DOMAIN bookings :
        /\ i # j
        /\ bookings[i].status = "cancelled"
        /\ "notes" \in DOMAIN bookings[i]
        /\ bookings[j].status = "confirmed"
        /\ bookings[j].startTime = bookings[i].startTime
        /\ bookings[j].bookingUserId = bookings[i].bookingUserId

(***************************************************************************)
(* SpecZone: generateSlotsFromRules for one rule, on hosts of several time *)
(* zones and for range starts at several times of day                      *)
(***************************************************************************)
\* minutes the host's local time is ahead of UTC
HostOffsets == {-120, 0, 120}

\* Sunday 23:00, Monday 00:00, Monday 01:00, Monday 12:00
ZoneStarts == {MinutesPerDay - 60, MinutesPerDay, MinutesPerDay + 60, MinutesPerDay + 720}

MaxRangeDays == 2

InitZone ==
    /\ bookingUsers = [p \in Persons |-> UserRow(TRUE, FALSE, "orgA")]
    /\ \E d \in 0..6 :
         availabilityRules = [p \in Persons |->
                                 IF p = "p1" THEN <<Rule(d, 540, 600, TRUE)>> ELSE <<>>]
    /\ bookings = <<>>
    /\ bookingConfigs = <<>>
    /\ calendarEvents = <<>>
    /\ googleCalendarCache = <<>>
    /\ clock = 0
    /\ hostOffset \in HostOffsets
    /\ throwing = {}
    /\ req = <<>>
    /\ args = <<>>
    /\ returned = NotCalled
    /\ previous = NoPrevious

ApplyGenerateSlotsFromRules ==
    /\ returned = NotCalled
    /\ \E startDate \in ZoneStarts, days \in 0..MaxRangeDays :
         /\ args' = [rule |-> availabilityRules["p1"][1], startDate |-> startDate,
                     endDate |-> startDate + days * MinutesPerDay]
         /\ returned' = <<[slots |-> generateSlotsFromRules(
                                        ActiveRules("p1"), startDate,
                                        startDate + days * MinutesPerDay,
                                        DEFAULT_BOOKING_DURATION_MINUTES, clock,
                                        hostOffset)]>>
    /\ UNCHANGED <<dbVars, worldVars>>

NextZone == ApplyGenerateSlotsFromRules

SpecZone == InitZone /\ [][NextZone]_vars

\* C24: every slot generated from a rule starts on a UTC date whose UTC
\* day-of-week is the rule's dayOfWeek, whatever the host's time zone and the
\* time of day of startDate.
C24_SlotsStartOnTheRulesUtcWeekday ==
    Called =>
        \A i \in 1..Len(Ret.slots) :
            UTCDayOfWeek(Ret.slots[i].startTime) = args.rule.dayOfWeek

(***************************************************************************)
(* Returned slots against the confirmed bookings of the store              *)
(***************************************************************************)
\* C25: for any requested window, every slot that getAvailableSlots returns
\* for a person overlaps, once padded by the buffer on both ends, no confirmed
\* booking of that person in the store.
C25_ReturnedSlotsClearOfConfirmedBookings ==
    Called =>
        \A k \in 1..Len(Ret.slots) :
            \A i \in ConfirmedOf(Ret.slots[k].userId) :
                ~ PaddedOverlap(Ret.slots[k], bookings[i].startTime, bookings[i].endTime)

(***************************************************************************)
(* SpecStrict: isSlotAvailable beside the slot filter, for organizations   *)
(* with and without a buffer                                               *)
(***************************************************************************)
\* confirmed bookings before, across and after [09:00, 09:30) of Monday
StrictRows ==
    {BookingRow("p1", iv[1], iv[2], "confirmed", 0) :
        iv \in {<<T0 - 2 * Step, T0>>, <<T0 + Step, T0 + 3 * Step>>,
                <<T0 + 4 * Step, T0 + 6 * Step>>}}

InitStrict ==
    /\ bookingUsers = [p \in Persons |-> UserRow(TRUE, FALSE, "orgA")]
    /\ availabilityRules = NoRules
    /\ bookings \in SeqsUpTo(StrictRows, MaxBookings)
    /\ bookingConfigs \in {<<>>} \cup {<<row>> : row \in ConfigRows}
    /\ calendarEvents = <<>>
    /\ googleCalendarCache = <<>>
    /\ clock = 0
    /\ hostOffset = 0
    /\ throwing = {}
    /\ req = <<>>
    /\ args = <<>>
    /\ returned = NotCalled
    /\ previous = NoPrevious

SpecStrict == InitStrict /\ [][NextGuard]_vars

\* what the filter of getAvailableSlots decides for the interval as a slot of
\* the person, from the person's confirmed bookings and the buffer
ListingKeeps ==
    SlotIsFree([startTime |-> args.startTime, endTime |-> args.endTime],
               BusyOfBookings(SelectSeq(bookings, LAMBDA b :
                   b.bookingUserId = args.userId /\ b.status = "confirmed")),
               ResolveBuffer(bookingConfigs))

\* C26: for the same confirmed bookings and buffer, isSlotAvailable never
\* returns true for a person and interval that the slot filter of
\* getAvailableSlots would exclude.
C26_GuardAtLeastAsStrictAsListing ==
    (Called /\ Ret.isAvailable) => ListingKeeps

(***************************************************************************)
(* SpecLoop: the while loop of generateSlotsForDay, one step per pass, for *)
(* the duration that getAvailableSlots resolves from the caller's value.   *)
(* A Date holds an instant of a bounded range or is invalid: <<t>> or <<>>. *)
(***************************************************************************)
\* the range of a Date, in days around the epoch of the model
DateRangeDays == 3

DateRange == DateRangeDays * MinutesPerDay

InvalidDate == <<>>

TimeClipClamping(t) ==
    IF t < - DateRange THEN <<- DateRange>> ELSE IF t > DateRange THEN <<DateRange>> ELSE <<t>>

\* Date.prototype.setTime and new Date(value): an instant outside the range
\* makes the Date invalid
TimeClip(t) == IF t < - DateRange \/ t > DateRange THEN InvalidDate ELSE <<t>>

\* slotStart.getTime() + durationMinutes * 60000 <= dayEnd.getTime(); a
\* comparison with the NaN of an invalid Date is false
LoopGuardOfDates(slotStart, durationMinutes, dayEnd) ==
    /\ slotStart # InvalidDate
    /\ dayEnd # InvalidDate
    /\ LoopGuard(slotStart[1], durationMinutes, dayEnd[1])

\* what the caller may send as durationMinutes; 0 stands for none
CallerDurations == {-30, -20, 0, 20, 30}

LoopRules == {Rule(1, 540, 600, TRUE), RuleEmpty, RuleBackwards}

IdleLoop ==
    [pc |-> "idle", slotStart |-> InvalidDate, dayEnd |-> InvalidDate, duration |-> 0,
     slots |-> <<>>]

InitLoop ==
    /\ bookingUsers = [p \in Persons |-> UserRow(TRUE, FALSE, "orgA")]
    /\ \E rule \in LoopRules :
         availabilityRules = [p \in Persons |-> IF p = "p1" THEN <<rule>> ELSE <<>>]
    /\ bookings = <<>>
    /\ bookingConfigs \in {<<>>} \cup {<<row>> : row \in ConfigRows}
    /\ calendarEvents = <<>>
    /\ googleCalendarCache = <<>>
    /\ clock \in {0, T0 + Step}
    /\ hostOffset = 0
    /\ throwing = {}
    /\ req = IdleLoop
    /\ args = <<>>
    /\ returned = NotCalled
    /\ previous = NoPrevious

loopUnchanged == UNCHANGED <<dbVars, calendarEvents, googleCalendarCache, clock, hostOffset, throwing, previous>>

\* lines 80 and 631-653: the duration is resolved and the two Dates are made
StartGenerateSlotsForDay ==
    /\ req.pc = "idle"
    /\ \E durationMinutes \in CallerDurations :
         LET rule == availabilityRules["p1"][1]
             duration == ResolveDuration(durationMinutes, bookingConfigs)
         IN /\ args' = [date |-> T0, rule |-> rule, durationMinutes |-> durationMinutes]
            /\ req' = [pc |-> "loop",
                       slotStart |-> TimeClip(UTCMidnight(T0) + rule.startTime),
                       dayEnd |-> TimeClip(UTCMidnight(T0) + rule.endTime),
                       duration |-> duration,
                       slots |-> <<>>]
    /\ returned' = returned
    /\ loopUnchanged

\* lines 656-670: one pass of the loop body
LoopPass ==
    /\ req.pc = "loop"
    /\ LoopGuardOfDates(req.slotStart, req.duration, req.dayEnd)
    /\ LET slotStart == req.slotStart[1]
           slotEnd == TimeClip(slotStart + req.duration)
       IN req' = [req EXCEPT
                    !.slots = IF IsFuture(slotStart, clock)
                              THEN Append(@, [startTime |-> req.slotStart, endTime |-> slotEnd])
                              ELSE @,
                    !.slotStart = TimeClip(slotStart + req.duration)]
    /\ UNCHANGED <<args, returned>>
    /\ loopUnchanged

\* line 672: the guard is false and the slots are returned
LoopExit ==
    /\ req.pc = "loop"
    /\ ~ LoopGuardOfDates(req.slotStart, req.duration, req.dayEnd)
    /\ req' = [req EXCEPT !.pc = "done"]
    /\ returned' = <<[slots |-> req.slots]>>
    /\ args' = args
    /\ loopUnchanged

NextLoop ==
    \/ StartGenerateSlotsForDay
    \/ LoopPass
    \/ LoopExit

SpecLoop == InitLoop /\ [][NextLoop]_vars

\* the running call keeps running: a pass or the exit that can be taken is taken
SpecLoopLive == SpecLoop /\ WF_vars(NextLoop)

\* C27: for every durationMinutes of the caller, zero and negative ones
\* included, and every stored rule, the slot loop for one rule and day ends
\* and the call returns.
C27_SlotLoopEnds == <>(req.pc = "done")

\* A call with a negative duration has returned: the loop ran backwards from
\* the rule's start, pushing slots, until its Date became invalid.
C27_Witness ==
    /\ req.pc = "done"
    /\ args.durationMinutes < 0
    /\ req.slotStart = InvalidDate
    /\ Len(req.slots) > 1
    /\ Called

(***************************************************************************)
(* The cache after a failed free/busy chunk                                *)
(***************************************************************************)
\* C28: the empty busy set that a failed free/busy chunk leaves for its
\* people is not stored in the busy-time cache, so the next call for the same
\* people and window asks the provider again.
C28_DegradedEmptySetIsNotCached ==
    (Called /\ 0 \in Ret.failed) =>
        \A u \in Ret.fetched :
            CacheKey(u, args.startDate, args.endDate) \notin DOMAIN googleCalendarCache

(***************************************************************************)
(* SpecEdits: two schedule edits of one person, one step per await of      *)
(* handleUpdateAvailability                                                *)
(***************************************************************************)
MaxEdits == 2

Edits == 1..MaxEdits

ConcurrentBodies == {<<>>, <<RuleA>>, <<RuleC>>, <<RuleA, RuleB>>}

IdleEdit == [pc |-> "idle", userId |-> "none", rules |-> <<>>, data |-> <<>>]

InitEdits ==
    /\ bookingUsers = [p \in Persons |-> UserRow(TRUE, FALSE, "orgA")]
    /\ availabilityRules \in
         {[p \in Persons |-> IF p = "p1" THEN s1 ELSE <<RuleC>>] :
             s1 \in {<<>>, <<RuleB>>}}
    /\ bookings = <<>>
    /\ bookingConfigs = <<>>
    /\ calendarEvents = <<>>
    /\ googleCalendarCache = <<>>
    /\ clock = 0
    /\ hostOffset = 0
    /\ throwing = {}
    /\ req = [e \in Edits |-> IdleEdit]
    /\ args = <<>>
    /\ returned = NotCalled
    /\ previous = NoPrevious

editUnchanged == UNCHANGED <<bookingUsers, bookings, bookingConfigs, worldVarsButReq, args, returned>>

\* await request.json()
ReadBody(e) ==
    /\ req[e].pc = "idle"
    /\ \E rules \in ConcurrentBodies :
         req' = [req EXCEPT ![e] = [pc |-> "delete", userId |-> "p1", rules |-> rules,
                                    data |-> <<>>]]
    /\ UNCHANGED availabilityRules
    /\ editUnchanged

\* await db.delete(availabilityRules).where(bookingUserId = userId)
DeleteRules(e) ==
    /\ req[e].pc = "delete"
    /\ availabilityRules' = [availabilityRules EXCEPT ![req[e].userId] = <<>>]
    /\ req' = [req EXCEPT ![e].pc = "insert"]
    /\ editUnchanged

\* if (body.rules && body.rules.length > 0) await db.insert(...).values(...)
InsertRules(e) ==
    /\ req[e].pc = "insert"
    /\ availabilityRules' =
          [availabilityRules EXCEPT ![req[e].userId] =
              IF Len(req[e].rules) > 0 THEN @ \o req[e].rules ELSE @]
    /\ req' = [req EXCEPT ![e].pc = "read"]
    /\ editUnchanged

\* the rules are read back and sent as the response
ReadBack(e) ==
    /\ req[e].pc = "read"
    /\ req' = [req EXCEPT ![e].pc = "done", ![e].data = availabilityRules[req[e].userId]]
    /\ UNCHANGED availabilityRules
    /\ editUnchanged

EditStep(e) ==
    \/ ReadBody(e)
    \/ DeleteRules(e)
    \/ InsertRules(e)
    \/ ReadBack(e)

NextEdits == \E e \in Edits : EditStep(e)

SpecEdits == InitEdits /\ [][NextEdits]_vars

\* C29: once two concurrent edits of one person have both finished, the
\* person's stored rules are exactly the rules one of the two edits
\* submitted, never a mixture or union of both.
C29_StoredRulesAreOneEditsRules ==
    (\A e \in Edits : req[e].pc = "done") =>
        \E e \in Edits : availabilityRules["p1"] = req[e].rules

(***************************************************************************)
(* SpecBoth: getAvailableSlots and getAvailableDays on the same arguments, *)
(* rows and now, for organizations without connected calendars             *)
(***************************************************************************)
ApplyBoth ==
    /\ returned = NotCalled
    /\ \E startDate \in DayStarts, endDate \in DayEnds, durationMinutes \in {0, 4 * Step} :
         /\ args' = [organizationId |-> "orgA", startDate |-> startDate,
                     endDate |-> endDate, durationMinutes |-> durationMinutes]
         /\ returned' = <<[slots |-> SlotsOfCall("orgA", startDate, endDate, durationMinutes,
                                                 NoMap, clock, hostOffset),
                           days |-> getAvailableDays("orgA", startDate, endDate,
                                                     durationMinutes, clock)]>>
    /\ UNCHANGED <<dbVars, worldVars>>

NextBoth == ApplyBoth

SpecBoth == InitDays /\ [][NextBoth]_vars

\* C30: with no external busy time, every UTC date on which getAvailableSlots
\* returns a slot is in the list getAvailableDays returns for the same
\* arguments, rows and now.
C30_DaysCoverTheDatesOfSlots ==
    Called =>
        \A k \in 1..Len(Ret.slots) :
            DateStr(Ret.slots[k].startTime) \in Range(Ret.days)

====
